---- MODULE Spec2Model ----
(***************************************************************************)
(* PaperWeight / Prime Officer: the progression and selection core         *)
(* (streak engine, mission selector, XP engine) and the missions and       *)
(* settings screens that drive it.                                         *)
(*                                                                         *)
(* ISO date strings "YYYY-MM-DD" are modelled as triples <<y, m, d>>; a JS  *)
(* Date at local midnight is the normalised triple, with the day overflow  *)
(* and underflow of new Date(y, m, d) / setDate carried into the month and *)
(* the year.                                                               *)
(***************************************************************************)
EXTENDS Integers, Sequences, FiniteSets, TLC

VARIABLES
    today,           \* the wall clock's local date, as read by new Date()
    user,            \* AppState.user (or the user handed to the engine)
    skillTree,       \* AppState.skillTree: sequence of skill nodes
    cards,           \* AppState.cards: sequence of cards
    todaysMissions,  \* AppState.todaysMissions: sequence of card ids
    persisted,       \* localStorage[LOCAL_STORAGE_USER_KEY]
    view,            \* the controls the missions screen last rendered
    lastOp,          \* the operation that produced this state
    alerted,         \* TRUE iff the last operation raised alert(...)
    hist,            \* the last two engine calls (argument and input user)
    sel,             \* one selectDailyCardIds call: inputs, loop state, result
    stats,           \* result of the last computeStreakStats call
    calc             \* one call of a dashboard engine: function, arguments, result

vars == <<today, user, skillTree, cards, todaysMissions, persisted, view,
          lastOp, alerted, hist, sel, stats, calc>>

None == "none"

\* an optional value (a field that may be undefined or null): <<>> or <<v>>
Absent == <<>>
Some(v) == <<v>>

----------------------------------------------------------------------------
(* Bounds of the model *)

\* number of consecutive calendar days the clock may range over
NumDays == 15
\* engine calls per behaviour of SpecXp
MaxCalls == 3
\* days in the window of SpecStreak
StreakDays == 5
\* longest streak handed to computeXpMultiplier in SpecLevels
MaxStreak == 31
\* days the clock of SpecTimeline may stand at
TimelineDays == 37
\* longest list of reflections handed to computeReflectionStats
MaxReflections == 5

----------------------------------------------------------------------------
(* Generic helpers *)

Range(s) == {s[i] : i \in 1..Len(s)}

Includes(s, x) == \E i \in 1..Len(s) : s[i] = x

\* obj[key] = value on a JS object used as a map
Put(f, k, v) == [x \in (DOMAIN f) \cup {k} |-> IF x = k THEN v ELSE f[x]]

\* obj[key] || dflt
Get(f, k, dflt) == IF k \in DOMAIN f THEN f[k] ELSE dflt

EmptyMap == [x \in {} |-> 0]

RECURSIVE SumOver(_, _)
SumOver(f, S) ==
    IF S = {} THEN 0
    ELSE LET x == CHOOSE y \in S : TRUE IN f[x] + SumOver(f, S \ {x})

MaxOf(S) == CHOOSE x \in S : \A y \in S : y <= x

----------------------------------------------------------------------------
(* Date helpers of streaks_engine.js *)

IsLeap(y) == (y % 4 = 0 /\ y % 100 # 0) \/ y % 400 = 0

DaysInMonth(y, m) ==
    IF m = 2 THEN (IF IsLeap(y) THEN 29 ELSE 28)
    ELSE IF m \in {4, 6, 9, 11} THEN 30 ELSE 31

\* what the Date constructor and setDate do with a day outside the month
RECURSIVE NormalizeDate(_, _, _)
NormalizeDate(y, m, d) ==
    IF d < 1 THEN
        LET py == IF m = 1 THEN y - 1 ELSE y
            pm == IF m = 1 THEN 12 ELSE m - 1
        IN NormalizeDate(py, pm, d + DaysInMonth(py, pm))
    ELSE IF d > DaysInMonth(y, m) THEN
        LET ny == IF m = 12 THEN y + 1 ELSE y
            nm == IF m = 12 THEN 1 ELSE m + 1
        IN NormalizeDate(ny, nm, d - DaysInMonth(y, m))
    ELSE <<y, m, d>>

parseDate(dateStr) == NormalizeDate(dateStr[1], dateStr[2], dateStr[3])

toIsoDate(d) == <<d[1], d[2], d[3]>>

addDays(date, delta) == NormalizeDate(date[1], date[2], date[3] + delta)

\* a < b on two zero-padded ISO strings
DateLess(a, b) ==
    \/ a[1] < b[1]
    \/ a[1] = b[1] /\ a[2] < b[2]
    \/ a[1] = b[1] /\ a[2] = b[2] /\ a[3] < b[3]

\* the clock's first day, and the n consecutive days from a day on
FirstDay == <<2025, 2, 15>>

RECURSIVE DaysFrom(_, _)
DaysFrom(d, n) == IF n <= 0 THEN {} ELSE {d} \cup DaysFrom(addDays(d, 1), n - 1)

----------------------------------------------------------------------------
(* Streak engine (streaks_engine.js) *)

ActiveDates(completed) == {d \in DOMAIN completed : Len(completed[d]) > 0}

\* while (dateSet.has(cursor)) { n++; cursor = toIsoDate(addDays(parseDate(cursor), step)) }
RECURSIVE RunLength(_, _, _)
RunLength(dateSet, cursor, step) ==
    IF cursor \in dateSet
    THEN 1 + RunLength(dateSet, toIsoDate(addDays(parseDate(cursor), step)), step)
    ELSE 0

LastOf(dateSet) == CHOOSE d \in dateSet : \A e \in dateSet : e = d \/ DateLess(e, d)

\* a plausible slip: a day of grace, the walk starts yesterday when today is idle
computeStreakStats_grace(u, now) ==
    LET dateSet == ActiveDates(u.completed_cards_by_date)
        start   == IF now \in dateSet THEN now ELSE toIsoDate(addDays(parseDate(now), -1))
        starts  == {d \in dateSet : toIsoDate(addDays(parseDate(d), -1)) \notin dateSet}
    IN IF dateSet = {}
       THEN [currentStreak |-> 0, bestStreak |-> 0, lastActiveDate |-> Absent]
       ELSE [currentStreak  |-> RunLength(dateSet, start, -1),
             bestStreak     |-> MaxOf({RunLength(dateSet, d, 1) : d \in starts}),
             lastActiveDate |-> LastOf(dateSet)]

\* computeStreakStats(user), with the clock's date it reads made explicit
computeStreakStats(u, now) ==
    LET dateSet == ActiveDates(u.completed_cards_by_date)
        starts  == {d \in dateSet : toIsoDate(addDays(parseDate(d), -1)) \notin dateSet}
    IN IF dateSet = {}
       THEN [currentStreak |-> 0, bestStreak |-> 0, lastActiveDate |-> Absent]
       ELSE [currentStreak  |-> RunLength(dateSet, now, -1),
             bestStreak     |-> MaxOf({RunLength(dateSet, d, 1) : d \in starts}),
             lastActiveDate |-> LastOf(dateSet)]

\* a plausible slip: the bands exclude their lower edge
computeXpMultiplier_late(currentStreak) ==
    IF currentStreak > 30 THEN 15
    ELSE IF currentStreak > 14 THEN 13
    ELSE IF currentStreak > 7 THEN 12
    ELSE IF currentStreak > 3 THEN 11
    ELSE 10

\* multiplier in tenths: 10 is x1.0, 11 is x1.1, ...
computeXpMultiplier(currentStreak) ==
    IF currentStreak >= 30 THEN 15
    ELSE IF currentStreak >= 14 THEN 13
    ELSE IF currentStreak >= 7 THEN 12
    ELSE IF currentStreak >= 3 THEN 11
    ELSE 10

\* a plausible slip: both bonus rolls from the first week on
computeBonusRolls_week(currentStreak) ==
    IF currentStreak >= 7 THEN 2
    ELSE 0

computeBonusRolls(currentStreak) ==
    IF currentStreak >= 14 THEN 2
    ELSE IF currentStreak >= 7 THEN 1
    ELSE 0

----------------------------------------------------------------------------
(* Static data: the cards and the skill nodes the model draws from *)

Card(id, domain, xp, tags, disabled) ==
    [id |-> id, domain |-> domain, xp_reward |-> xp, tags |-> tags,
     disabled |-> disabled]

CardA == Card("c1", "academic", 10, <<"OSINT">>, FALSE)
CardB == Card("c2", "physical", 5, <<>>, FALSE)
CardC == Card("c3", "academic", 15, <<"osint">>, TRUE)
CardD == Card("c4", None, 0, <<>>, FALSE)

Node(id, domains, req, prereqs) ==
    [id |-> id, domains |-> domains, xp_required |-> req,
     prerequisites |-> prereqs]

NodeA == Node("n1", <<"academic">>, 10, <<>>)
NodeB == Node("n2", <<>>, 20, <<"n1">>)
NodeC == Node("n3", <<"physical", "academic">>, 0, <<"n2">>)

Permutations3(a, b, c) ==
    {<<a, b, c>>, <<a, c, b>>, <<b, a, c>>, <<b, c, a>>, <<c, a, b>>, <<c, b, a>>}

----------------------------------------------------------------------------
(* XP engine (xp_engine.js) *)

\* Math.round(n / 10) for an integer n of tenths
MathRoundTenths(n) == (n + 5) \div 10

RECURSIVE SumXpOfDomains(_, _, _)
SumXpOfDomains(xpByDomain, domains, i) ==
    IF i > Len(domains) THEN 0
    ELSE Get(xpByDomain, domains[i], 0) + SumXpOfDomains(xpByDomain, domains, i + 1)

\* new Set(array), in insertion order
RECURSIVE Dedup(_, _, _)
Dedup(s, i, acc) ==
    IF i > Len(s) THEN acc
    ELSE Dedup(s, i + 1, IF Includes(acc, s[i]) THEN acc ELSE Append(acc, s[i]))

NodeTotalXp(node, xpByDomain) ==
    IF Len(node.domains) > 0
    THEN SumXpOfDomains(xpByDomain, node.domains, 1)
    ELSE SumOver(xpByDomain, DOMAIN xpByDomain)

\* a plausible slip: only the first prerequisite is tested
PrereqOK_first(node, completedSet) ==
    Len(node.prerequisites) = 0 \/ Includes(completedSet, node.prerequisites[1])

\* lines 90-92: prereqs.every((id) => completedSet.has(id))
PrereqOK(node, completedSet) ==
    \A p \in Range(node.prerequisites) : Includes(completedSet, p)

\* a plausible slip: the prerequisites are not tested
RECURSIVE UnlockLoop_anyorder(_, _, _, _)
UnlockLoop_anyorder(tree, i, completedSet, xpByDomain) ==
    IF i > Len(tree) THEN completedSet
    ELSE LET node == tree[i]
         IN IF Includes(completedSet, node.id)
               \/ NodeTotalXp(node, xpByDomain) < node.xp_required
            THEN UnlockLoop_anyorder(tree, i + 1, completedSet, xpByDomain)
            ELSE UnlockLoop_anyorder(tree, i + 1, Append(completedSet, node.id),
                                     xpByDomain)

\* the for-loop of unlockCompletedSkills from node i on
RECURSIVE UnlockLoop(_, _, _, _)
UnlockLoop(tree, i, completedSet, xpByDomain) ==
    IF i > Len(tree) THEN completedSet
    ELSE LET node == tree[i]
             prereqOK == PrereqOK(node, completedSet)
         IN IF Includes(completedSet, node.id) \/ ~prereqOK
            THEN UnlockLoop(tree, i + 1, completedSet, xpByDomain)
            ELSE IF NodeTotalXp(node, xpByDomain) >= node.xp_required
                 THEN UnlockLoop(tree, i + 1, Append(completedSet, node.id), xpByDomain)
                 ELSE UnlockLoop(tree, i + 1, completedSet, xpByDomain)

\* a plausible slip: the completed set is rebuilt from scratch on every pass
unlockCompletedSkills_rebuild(updatedUser, tree) ==
    [updatedUser EXCEPT !.completed_skill_nodes =
        UnlockLoop(tree, 1, <<>>, updatedUser.xp_by_domain)]

unlockCompletedSkills(updatedUser, tree) ==
    [updatedUser EXCEPT !.completed_skill_nodes =
        UnlockLoop(tree, 1, Dedup(updatedUser.completed_skill_nodes, 1, <<>>),
                   updatedUser.xp_by_domain)]

\* a plausible slip: the id is pushed without the includes() test
MarkCompleted_push(byDate, date, cardId) ==
    Put(byDate, date, Append(Get(byDate, date, <<>>), cardId))

\* lines 35-41: record the card id in the date's list, once
MarkCompleted(byDate, date, cardId) ==
    LET todaysList == Get(byDate, date, <<>>)
    IN IF ~Includes(todaysList, cardId)
       THEN Put(byDate, date, Append(todaysList, cardId))
       ELSE byDate

\* a plausible slip: the streak bonus is subtracted from the bucket
CreditXp_minus(xpByDomain, domain, gainedXp) ==
    Put(xpByDomain, domain, Get(xpByDomain, domain, 0) - gainedXp)

\* lines 52-55: create the bucket at 0 if absent, then add
CreditXp(xpByDomain, domain, gainedXp) ==
    Put(xpByDomain, domain, Get(xpByDomain, domain, 0) + gainedXp)

\* applyXpForCompletedCard(user, card, skillTree, {date}); dateOpt = Absent is
\* a call without options.date, now is the clock's date
applyXpForCompletedCard(u, card, tree, dateOpt, now) ==
    LET date        == IF dateOpt # Absent THEN dateOpt ELSE now
        byDate      == MarkCompleted(u.completed_cards_by_date, date, card.id)
        marked      == [u EXCEPT !.completed_cards_by_date = byDate]
        streakStats == computeStreakStats(marked, now)
        multiplier  == computeXpMultiplier(streakStats.currentStreak)
        baseXp      == card.xp_reward
        gainedXp    == MathRoundTenths(baseXp * multiplier)
        domain      == IF card.domain # None THEN card.domain ELSE "misc"
        credited    == [marked EXCEPT
                          !.xp_by_domain = CreditXp(u.xp_by_domain, domain, gainedXp),
                          !.last_xp_gain = Some([date |-> date, card_id |-> card.id,
                                            domain |-> domain, base_xp |-> baseXp,
                                            multiplier |-> multiplier,
                                            gained_xp |-> gainedXp,
                                            current_streak |-> streakStats.currentStreak])]
    IN unlockCompletedSkills(credited, tree)


----------------------------------------------------------------------------
(* Mission selector, balanced mixer (card_selector.js, new version) *)

\* String.prototype.toLowerCase on the tags of the model
ToLowerCase(t) == IF t = "OSINT" THEN "osint" ELSE t

includesTag(card, tag) ==
    \E i \in 1..Len(card.tags) : ToLowerCase(card.tags[i]) = ToLowerCase(tag)

Indices(all) == [i \in 1..Len(all) |-> i]

Without(pool, chosen) == SelectSeq(pool, LAMBDA c : ~Includes(chosen, c))

Swap(arr, i, j) == [arr EXCEPT ![i] = arr[j], ![j] = arr[i]]

\* every outcome of the Fisher-Yates loop from position i down
RECURSIVE ShuffleFrom(_, _)
ShuffleFrom(arr, i) ==
    IF i <= 1 THEN {arr}
    ELSE UNION {ShuffleFrom(Swap(arr, i, j), i - 1) : j \in 1..i}

shuffle(array) == ShuffleFrom(array, Len(array))

\* every outcome of pickOneFrom(pool, chosen): the chosen list afterwards
pickOneFrom(pool, chosen) ==
    LET available == Without(pool, chosen)
    IN IF Len(available) = 0 THEN {chosen}
       ELSE {Append(chosen, available[idx]) : idx \in 1..Len(available)}

\* Number(x) || dflt
OrIfZero(x, dflt) == IF x = 0 THEN dflt ELSE x

Max2(a, b) == IF a >= b THEN a ELSE b
Min2(a, b) == IF a <= b THEN a ELSE b

MixerDefaultCount == 3

\* lines 41-46: options.dailyCount ?? user.settings.daily_card_count ?? 3
MixerDailyCount(userOpt, options) ==
    LET fromUser == IF userOpt = Absent THEN Absent
                    ELSE userOpt[1].settings.daily_card_count
        desiredCount == IF options.dailyCount # Absent THEN options.dailyCount[1]
                        ELSE IF fromUser # Absent THEN fromUser[1]
                        ELSE MixerDefaultCount
    IN Max2(1, OrIfZero(desiredCount, MixerDefaultCount))

\* the chosen cards, by index, with the first dailyCount - |chosen| cards
\* of every shuffle of the rest of the pool
FillRemaining(pool, chosen, dailyCount) ==
    LET remainingSlots == Max2(0, dailyCount - Len(chosen))
    IN IF remainingSlots > 0
       THEN {chosen \o SubSeq(remainingPool, 1, Min2(remainingSlots, Len(remainingPool))) :
                remainingPool \in shuffle(Without(pool, chosen))}
       ELSE {chosen}

\* line 49: pool = cards.filter((c) => !c.disabled)
MixerPool(all) == SelectSeq(Indices(all), LAMBDA i : ~all[i].disabled)

\* every list of ids selectDailyCardIds(user, cards, options) can return
MixerSelect(userOpt, all, options) ==
    LET dailyCount    == MixerDailyCount(userOpt, options)
        pool          == MixerPool(all)
        osintCards    == SelectSeq(pool, LAMBDA i : includesTag(all[i], "osint"))
        academicCards == SelectSeq(pool, LAMBDA i : all[i].domain = "academic")
        physicalCards == SelectSeq(pool, LAMBDA i : all[i].domain = "physical")
        afterOsint    == pickOneFrom(osintCards, <<>>)
        afterAcademic == UNION {pickOneFrom(academicCards, ch) : ch \in afterOsint}
        afterPhysical == UNION {pickOneFrom(physicalCards, ch) : ch \in afterAcademic}
        filled        == UNION {FillRemaining(pool, ch, dailyCount) : ch \in afterPhysical}
    IN IF Len(all) = 0 \/ Len(pool) = 0 THEN {<<>>}
       ELSE {[i \in 1..Len(ch) |-> all[ch[i]].id] : ch \in filled}

----------------------------------------------------------------------------
(* Mission selector, weighted random (card_selector.js, strategy v1) *)

WeightedDefaultCount == 5
WeightBase == 10
IterationsPerCard == 5

\* lines 357-361: options.count ?? (settings.daily_card_count if a number, else 5)
WeightedCount(u, options) ==
    IF options.count # Absent THEN options.count[1]
    ELSE IF u.settings.daily_card_count # Absent
         THEN u.settings.daily_card_count[1]
         ELSE WeightedDefaultCount

\* computeDomainWeights: weaker domains weigh more, never below the base
computeDomainWeights(u, all) ==
    LET xp == u.xp_by_domain
        domainsInCards == {all[i].domain : i \in 1..Len(all)}
        maxXp == MaxOf({0} \cup {Get(xp, d, 0) : d \in domainsInCards})
    IN [d \in domainsInCards |->
          LET raw == maxXp - Get(xp, d, 0) + WeightBase
          IN IF raw > 0 THEN raw ELSE WeightBase]

\* the cards pickRandomCardWeightedByDomain can return: a draw r in
\* [0, totalWeight) lands on any card of positive weight
WeightedPickable(all, domainWeights) ==
    {i \in 1..Len(all) : Get(domainWeights, all[i].domain, 1) > 0}

----------------------------------------------------------------------------
(* Users *)

\* the options record of a selectDailyCardIds call
Options(count, dailyCount) == [count |-> count, dailyCount |-> dailyCount]

Settings(count, theme) == [daily_card_count |-> count, theme |-> theme]

User(xp, byDate, nodes, rerolls, settings) ==
    [xp_by_domain |-> xp, completed_cards_by_date |-> byDate,
     completed_skill_nodes |-> nodes, rerolls_by_date |-> rerolls,
     settings |-> settings, last_xp_gain |-> Absent]

\* values of the variables a specification does not use
IdleHist == [calls |-> 0, last |-> Absent, before |-> Absent, repeat |-> FALSE]
IdleSel  == [pc |-> "idle", strategy |-> None, options |-> None, count |-> 0,
             selectedIds |-> <<>>, safetyCounter |-> 0, result |-> Absent]
IdleView == [screen |-> "dashboard", filter |-> "all", chips |-> {},
             completeBtns |-> {}, rerollBtn |-> FALSE]
IdleCalc == [pc |-> "idle", fn |-> None, args |-> <<>>, result |-> Absent]

----------------------------------------------------------------------------
(* The clock *)

\* local midnight passes; the days of a specification are those of its window
AdvanceDay(window) ==
    /\ toIsoDate(addDays(parseDate(today), 1)) \in window
    /\ today' = toIsoDate(addDays(parseDate(today), 1))
    /\ lastOp' = "advanceDay"
    /\ alerted' = FALSE
    /\ hist' = [hist EXCEPT !.last = Absent, !.repeat = FALSE]
    /\ UNCHANGED <<user, skillTree, cards, todaysMissions, persisted, view, sel, stats, calc>>

----------------------------------------------------------------------------
(* Tag filters (tags_engine.js) *)

extractTagsFromCards(cs) ==
    UNION {{ToLowerCase(cs[i].tags[k]) : k \in 1..Len(cs[i].tags)} : i \in 1..Len(cs)}

cardMatchesFilter(card, filter) ==
    \/ filter = "all"
    \/ card.domain # None /\ ToLowerCase(card.domain) = ToLowerCase(filter)
    \/ \E k \in 1..Len(card.tags) : ToLowerCase(card.tags[k]) = ToLowerCase(filter)

----------------------------------------------------------------------------
(* Missions screen (missions_view.js) and settings screen (settings_view.js) *)

\* AppState.cards.find((c) => c.id === id), as a list of zero or one card
CardsById(all, id) == SelectSeq(all, LAMBDA c : c.id = id)

RECURSIVE MissionCards(_, _, _)
MissionCards(missions, all, i) ==
    IF i > Len(missions) THEN <<>>
    ELSE LET found == CardsById(all, missions[i])
         IN (IF Len(found) > 0 THEN <<found[1]>> ELSE <<>>)
            \o MissionCards(missions, all, i + 1)

UsedRolls(u, day) == Get(u.rerolls_by_date, day, 0)

\* a plausible slip: on an idle day the streak held through yesterday counts
AllowedRolls_held(u, now) ==
    computeBonusRolls(Max2(computeStreakStats(u, now).currentStreak,
                           computeStreakStats(u, toIsoDate(addDays(parseDate(now), -1))).currentStreak))

\* lines 219-220: computeBonusRolls(computeStreakStats(user).currentStreak)
AllowedRolls(u, now) == computeBonusRolls(computeStreakStats(u, now).currentStreak)

\* a plausible slip: the request is turned down only below zero
RerollRejected_strict(allowed, used) == allowed - used < 0

\* lines 224-229: remaining = Math.max(0, allowed - used); if (remaining <= 0) ...
RerollRejected(allowed, used) == Max2(0, allowed - used) <= 0

\* a plausible slip: a Complete button on every visible card, completed or not
renderMissionsView_allButtons(u, all, missions, now, activeFilter) ==
    LET remainingRolls == Max2(0, AllowedRolls(u, now) - UsedRolls(u, now))
        missionCards   == MissionCards(missions, all, 1)
        visibleCards   == SelectSeq(missionCards,
                                    LAMBDA c : cardMatchesFilter(c, activeFilter))
    IN [screen       |-> "missions",
        filter       |-> activeFilter,
        chips        |-> {"all"} \cup extractTagsFromCards(missionCards),
        completeBtns |-> {visibleCards[i].id : i \in 1..Len(visibleCards)},
        rerollBtn    |-> remainingRolls > 0]

\* the controls renderMissionsView(activeFilter) puts on the page
renderMissionsView(u, all, missions, now, activeFilter) ==
    LET completedToday == Get(u.completed_cards_by_date, now, <<>>)
        remainingRolls == Max2(0, AllowedRolls(u, now) - UsedRolls(u, now))
        missionCards   == MissionCards(missions, all, 1)
        visibleCards   == SelectSeq(missionCards,
                                    LAMBDA c : cardMatchesFilter(c, activeFilter))
    IN [screen       |-> "missions",
        filter       |-> activeFilter,
        chips        |-> {"all"} \cup extractTagsFromCards(missionCards),
        completeBtns |-> {visibleCards[i].id : i \in
                            {k \in 1..Len(visibleCards) :
                                ~Includes(completedToday, visibleCards[k].id)}},
        rerollBtn    |-> remainingRolls > 0]

\* settings and dashboard pages carry none of the mission controls
renderOther(screen) == [IdleView EXCEPT !.screen = screen]

\* the user clicks a navigation control: navigateTo(screen) and its render
NavigateTo(screen) ==
    /\ view.screen # screen
    /\ view' = IF screen = "missions"
               THEN renderMissionsView(user, cards, todaysMissions, today, "all")
               ELSE renderOther(screen)
    /\ lastOp' = "navigate"
    /\ alerted' = FALSE
    /\ UNCHANGED <<today, user, skillTree, cards, todaysMissions, persisted,
                   hist, sel, stats, calc>>

\* the user clicks a filter chip of the missions screen
ClickFilter(filter) ==
    /\ view.screen = "missions"
    /\ filter \in view.chips
    /\ view' = renderMissionsView(user, cards, todaysMissions, today, filter)
    /\ lastOp' = "filter"
    /\ alerted' = FALSE
    /\ UNCHANGED <<today, user, skillTree, cards, todaysMissions, persisted,
                   hist, sel, stats, calc>>

\* the user clicks a Complete button: handleCompleteMission(cardId, activeFilter)
HandleCompleteMission(cardId) ==
    /\ cardId \in view.completeBtns
    /\ LET found == CardsById(cards, cardId)
       IN IF Len(found) = 0
          THEN UNCHANGED <<user, persisted, view>>
          ELSE LET updatedUser ==
                     applyXpForCompletedCard(user, found[1], skillTree, today, today)
               IN /\ user' = updatedUser
                  /\ persisted' = Some(updatedUser)
                  /\ view' = renderMissionsView(updatedUser, cards, todaysMissions,
                                                today, view.filter)
    /\ lastOp' = "complete"
    /\ alerted' = FALSE
    /\ UNCHANGED <<today, skillTree, cards, todaysMissions, hist, sel, stats, calc>>

\* the user clicks Reroll Missions: handleRerollMissions(activeFilter)
HandleRerollMissions ==
    /\ view.rerollBtn
    /\ Len(cards) > 0
    /\ LET allowed == AllowedRolls(user, today)
           used    == UsedRolls(user, today)
       IN IF RerollRejected(allowed, used)
          THEN /\ alerted' = TRUE
               /\ UNCHANGED <<user, todaysMissions, persisted, view, calc>>
          ELSE \E newMissionIds \in MixerSelect(Some(user), cards, Options(Absent, Absent)) :
                 LET updatedUser ==
                       [user EXCEPT !.rerolls_by_date = Put(@, today, used + 1)]
                 IN /\ todaysMissions' = newMissionIds
                    /\ user' = updatedUser
                    /\ persisted' = Some(updatedUser)
                    /\ view' = renderMissionsView(updatedUser, cards, newMissionIds,
                                                  today, view.filter)
                    /\ alerted' = FALSE
    /\ lastOp' = "reroll"
    /\ UNCHANGED <<today, skillTree, cards, hist, sel, stats, calc>>

\* parseInt(raw, 10) clamped to 1..20; raw = Absent is text that is no number
ClampDailyCount(raw) ==
    IF raw = Absent THEN 1
    ELSE IF raw[1] < 1 THEN 1
    ELSE IF raw[1] > 20 THEN 20
    ELSE raw[1]

\* the user clicks Save Settings: handleSaveSettings()
HandleSaveSettings(raw, themeValue) ==
    /\ view.screen = "settings"
    /\ LET value == ClampDailyCount(raw)
           theme == IF themeValue = "light" THEN "light" ELSE "dark"
           updatedUser == [user EXCEPT !.settings =
                              [@ EXCEPT !.daily_card_count = Some(value),
                                        !.theme = theme]]
       IN /\ user' = updatedUser
          /\ persisted' = Some(updatedUser)
          /\ todaysMissions' \in
                MixerSelect(Some(updatedUser), cards, Options(Some(value), Absent))
    /\ view' = renderOther("settings")
    /\ lastOp' = "saveSettings"
    /\ alerted' = FALSE
    /\ UNCHANGED <<today, skillTree, cards, hist, sel, stats, calc>>

----------------------------------------------------------------------------
(* SpecApp: the running application after bootstrap *)

AppStartDay == addDays(FirstDay, 13)
AppDays == DaysFrom(FirstDay, NumDays)
AppCards == <<CardA, CardB, CardC>>
AppTree == <<NodeA, NodeB, NodeC>>

\* a stored profile with an unbroken run of h active days up to yesterday
StoredUser(h) ==
    LET days == {d \in DaysFrom(addDays(AppStartDay, 0 - h), h) : TRUE}
    IN User(IF h = 0 THEN EmptyMap ELSE [d \in {"academic"} |-> 10 * h],
            [d \in days |-> <<"c1">>],
            IF h = 0 THEN <<>> ELSE <<"n1", "n2", "n3">>,
            EmptyMap,
            Settings(Some(3), "dark"))

StoredRuns == {0, 6, 13}
RawCounts == {Some(0)}

InitApp ==
    /\ today = AppStartDay
    /\ \E h \in StoredRuns : user = StoredUser(h)
    /\ persisted = Some(user)
    /\ skillTree = AppTree
    /\ cards = AppCards
    /\ todaysMissions \in MixerSelect(Some(user), cards, Options(Absent, Absent))
    /\ view = IdleView
    /\ lastOp = "init"
    /\ alerted = FALSE
    /\ hist = IdleHist
    /\ sel = IdleSel
    /\ stats = Absent
    /\ calc = IdleCalc

NextApp ==
    \/ \E screen \in {"dashboard", "missions", "settings"} : NavigateTo(screen)
    \/ \E filter \in {"all", "osint"} : ClickFilter(filter)
    \/ \E i \in 1..Len(AppCards) : HandleCompleteMission(AppCards[i].id)
    \/ HandleRerollMissions
    \/ \E raw \in RawCounts : HandleSaveSettings(raw, "light")
    \/ AdvanceDay(AppDays)

SpecApp == InitApp /\ [][NextApp]_vars

----------------------------------------------------------------------------
(* SpecStreak: computeStreakStats on every log of a window of days *)

StreakFirstDay == <<2025, 2, 26>>
StreakWindow == DaysFrom(StreakFirstDay, StreakDays)

\* each day of the window has no list, an empty list or a list of one id
StreakLogs ==
    UNION {[S -> {<<>>, <<"c1">>}] : S \in SUBSET StreakWindow}

InitStreak ==
    /\ today \in StreakWindow
    /\ \E log \in StreakLogs :
          user = User(EmptyMap, log, <<>>, EmptyMap, Settings(Absent, "dark"))
    /\ skillTree = <<>>
    /\ cards = <<>>
    /\ todaysMissions = <<>>
    /\ persisted = Absent
    /\ view = IdleView
    /\ lastOp = "init"
    /\ alerted = FALSE
    /\ hist = IdleHist
    /\ sel = IdleSel
    /\ stats = Absent
    /\ calc = IdleCalc

ComputeStreakStatsCall ==
    /\ stats = Absent
    /\ stats' = Some(computeStreakStats(user, today))
    /\ lastOp' = "computeStreakStats"
    /\ UNCHANGED <<today, user, skillTree, cards, todaysMissions, persisted,
                   view, alerted, hist, sel, calc>>

NextStreak == ComputeStreakStatsCall

SpecStreak == InitStreak /\ [][NextStreak]_vars

----------------------------------------------------------------------------
(* SpecXp: sequences of applyXpForCompletedCard calls, each on the user the
   previous call returned *)

XpFirstDay == <<2025, 2, 27>>
XpDays == DaysFrom(XpFirstDay, 3)
XpCards == {CardA, CardB, CardD}

XpLogs ==
    { EmptyMap,
      [d \in {<<2025, 2, 28>>} |-> <<>>],
      [d \in {<<2025, 2, 26>>, <<2025, 2, 27>>} |->
          IF d = <<2025, 2, 26>> THEN <<"c2">> ELSE <<"c2", "c1">>] }

XpBuckets ==
    { EmptyMap,
      [d \in {"academic", "physical"} |-> IF d = "academic" THEN 10 ELSE 5] }

\* completed nodes as stored: any order, and ids that no longer name a node
XpCompleted == { <<>>, <<"n2", "n1">>, <<"n3", "legacy">> }

InitXp ==
    /\ today = XpFirstDay
    /\ \E xp \in XpBuckets, log \in XpLogs, done \in XpCompleted :
          user = User(xp, log, done, EmptyMap, Settings(Absent, "dark"))
    /\ skillTree \in Permutations3(NodeA, NodeB, NodeC)
    /\ cards = <<CardA, CardB, CardD>>
    /\ todaysMissions = <<>>
    /\ persisted = Absent
    /\ view = IdleView
    /\ lastOp = "init"
    /\ alerted = FALSE
    /\ hist = IdleHist
    /\ sel = IdleSel
    /\ stats = Absent
    /\ calc = IdleCalc

\* updatedUser = applyXpForCompletedCard(user, card, skillTree, {date})
ApplyXpCall(card, dateOpt) ==
    /\ hist.calls < MaxCalls
    /\ user' = applyXpForCompletedCard(user, card, skillTree, dateOpt, today)
    /\ hist' = LET call == <<card.id, IF dateOpt # Absent THEN dateOpt ELSE today>>
               IN [calls |-> hist.calls + 1, last |-> call, before |-> Some(user),
                   repeat |-> hist.last = call]
    /\ lastOp' = "applyXp"
    /\ alerted' = FALSE
    /\ UNCHANGED <<today, skillTree, cards, todaysMissions, persisted, view, sel, stats, calc>>

NextXp ==
    \/ \E card \in XpCards, dateOpt \in {Absent, <<2025, 2, 28>>} :
          ApplyXpCall(card, dateOpt)
    \/ AdvanceDay(XpDays)

SpecXp == InitXp /\ [][NextXp]_vars

----------------------------------------------------------------------------
(* Claims on the XP engine *)

SameProgress(u, v) ==
    /\ u.xp_by_domain = v.xp_by_domain
    /\ u.completed_cards_by_date = v.completed_cards_by_date
    /\ u.completed_skill_nodes = v.completed_skill_nodes

\* C1: a second applyXpForCompletedCard call with the same card, skill tree
\* and date, made on the user the first call returned, leaves the progress of
\* that user as the first call left it (no second credit).
C1_SecondCallChangesNothing ==
    hist.repeat => SameProgress(user, hist.before[1])

\* C2: completed_skill_nodes only grows: every node id in the completed set
\* before a step is still in it after the step.
C2_CompletedNodesOnlyGrow ==
    [][Range(user.completed_skill_nodes) \subseteq Range(user'.completed_skill_nodes)]_vars

\* a call kept the nodes it found and unlocked a further one
C2_Witness ==
    /\ hist.calls >= 1
    /\ hist.before[1].completed_skill_nodes # <<>>
    /\ Range(hist.before[1].completed_skill_nodes) \subseteq Range(user.completed_skill_nodes)
    /\ Len(user.completed_skill_nodes) > Len(hist.before[1].completed_skill_nodes)

NoDuplicates(s) == \A i, j \in 1..Len(s) : s[i] = s[j] => i = j

\* C4: every list of completed_cards_by_date holds each card id at most once.
C4_NoDuplicateIdsPerDate ==
    \A d \in DOMAIN user.completed_cards_by_date :
        NoDuplicates(user.completed_cards_by_date[d])

\* the same card was applied twice for one date, and its list holds it
C4_Witness ==
    /\ hist.repeat
    /\ Includes(user.completed_cards_by_date[hist.last[2]], hist.last[1])
    /\ Len(user.completed_cards_by_date[hist.last[2]]) >= 2

\* the card of XpCards with the given id
XpCardOf(cardId) == CHOOSE c \in XpCards : c.id = cardId

\* the streak that ends on `date` in the log of u
StreakEndingOnDate(u, date) == computeStreakStats(u, date).currentStreak

\* C12: a call applyXpForCompletedCard(user, card, tree, {date}) adds exactly
\* round(card.xp_reward x m) to the bucket of the card's domain, creating the
\* bucket if absent, and changes no other bucket, where m is the multiplier
\* of the streak that counts the completion just recorded on `date`.
C12_ExactXpCredit ==
    lastOp = "applyXp" =>
        LET before == hist.before[1]
            card   == XpCardOf(hist.last[1])
            date   == hist.last[2]
            domain == IF card.domain # None THEN card.domain ELSE "misc"
            m      == computeXpMultiplier(StreakEndingOnDate(user, date))
            gained == MathRoundTenths(card.xp_reward * m)
        IN /\ DOMAIN user.xp_by_domain = DOMAIN before.xp_by_domain \cup {domain}
           /\ user.xp_by_domain[domain] = Get(before.xp_by_domain, domain, 0) + gained
           /\ \A other \in DOMAIN before.xp_by_domain \ {domain} :
                 user.xp_by_domain[other] = before.xp_by_domain[other]

\* the XP a node is measured against: that of its domains, or of every
\* domain when it lists none
XpCountedFor(node, xpByDomain) ==
    LET counted == IF node.domains = <<>> THEN DOMAIN xpByDomain
                   ELSE Range(node.domains) \cap DOMAIN xpByDomain
    IN SumOver(xpByDomain, counted)

\* the ids the last call added to completed_skill_nodes
NewlyCompleted ==
    Range(user.completed_skill_nodes) \ Range(hist.before[1].completed_skill_nodes)

\* C13: a node the unlock pass adds has, at the moment it is added, every
\* prerequisite in the completed set (completed before the call, or added
\* earlier in the same pass) and enough XP over its domains (over all
\* domains when it lists none).
C13_UnlockedOnlyWhenEligible ==
    lastOp = "applyXp" =>
        \A id \in NewlyCompleted :
            \E i \in 1..Len(skillTree) :
                LET node == skillTree[i]
                IN /\ node.id = id
                   /\ XpCountedFor(node, user.xp_by_domain) >= node.xp_required
                   /\ \A p \in Range(node.prerequisites) :
                         \/ Includes(hist.before[1].completed_skill_nodes, p)
                         \/ \E j \in 1..(i - 1) :
                               skillTree[j].id = p /\ p \in NewlyCompleted

\* a call unlocked a node together with the prerequisite it waited for
C13_Witness ==
    /\ lastOp = "applyXp"
    /\ {"n1", "n2"} \subseteq NewlyCompleted

\* a node the unlock pass would add now
Unlockable(u, node) ==
    /\ ~Includes(u.completed_skill_nodes, node.id)
    /\ \A p \in Range(node.prerequisites) : Includes(u.completed_skill_nodes, p)
    /\ XpCountedFor(node, u.xp_by_domain) >= node.xp_required

\* C14: when applyXpForCompletedCard has returned, a further unlock pass on
\* the unchanged XP adds nothing: no node of the skill tree, in whatever
\* order the tree lists them, is uncompleted with all its prerequisites
\* completed and enough XP.
C14_UnlockPassIsComplete ==
    lastOp = "applyXp" =>
        /\ unlockCompletedSkills(user, skillTree) = user
        /\ \A i \in 1..Len(skillTree) : ~Unlockable(user, skillTree[i])

----------------------------------------------------------------------------
(* Claims on the streak engine *)

\* C10: computeStreakStats returns currentStreak = 0 exactly when today's
\* completed-card list is absent or empty, and bestStreak >= currentStreak.
C10_CurrentStreakZeroIffIdleToday ==
    stats # Absent =>
        /\ (stats[1].currentStreak = 0) <=>
              (Get(user.completed_cards_by_date, today, <<>>) = <<>>)
        /\ stats[1].bestStreak >= stats[1].currentStreak

\* a streak that runs back across the end of February, shorter than the best
C10_Witness ==
    /\ stats # Absent
    /\ today = <<2025, 3, 1>>
    /\ stats[1].currentStreak = 2
    /\ stats[1].bestStreak >= 2


----------------------------------------------------------------------------
(* SpecSelect: one selectDailyCardIds call, of either strategy, on every pool,
   user setting and options record of the model *)

CardUniverse == <<CardA, CardB, CardC, CardD>>

\* the pools: every sub-list of the card universe
Pools ==
    {SelectSeq(CardUniverse, LAMBDA c : c.id \in ids) :
        ids \in SUBSET {CardUniverse[i].id : i \in 1..Len(CardUniverse)}}

SelectCounts == {Absent, Some(1), Some(3)}
SelectSettings == {Absent, Some(2), Some(5)}

InitSelect ==
    /\ today = FirstDay
    /\ \E n \in SelectSettings, xp \in {EmptyMap, [d \in {"academic"} |-> 20]} :
          user = User(xp, EmptyMap, <<>>, EmptyMap, Settings(n, "dark"))
    /\ skillTree = <<>>
    /\ cards \in Pools
    /\ todaysMissions = <<>>
    /\ persisted = Absent
    /\ view = IdleView
    /\ lastOp = "init"
    /\ alerted = FALSE
    /\ hist = IdleHist
    /\ \E n \in SelectCounts, m \in {Absent, Some(2)} :
          sel = [IdleSel EXCEPT !.pc = "ready", !.options = Options(n, m)]
    /\ stats = Absent
    /\ calc = IdleCalc

\* selectDailyCardIds of the balanced mixer, start to return
MixerCall ==
    /\ sel.pc = "ready"
    /\ \E ids \in MixerSelect(Some(user), cards, sel.options) :
          sel' = [sel EXCEPT !.pc = "done", !.strategy = "mixer",
                             !.count = MixerDailyCount(Some(user), sel.options),
                             !.result = Some(ids)]
    /\ lastOp' = "selectDailyCardIds"
    /\ UNCHANGED <<today, user, skillTree, cards, todaysMissions, persisted,
                   view, alerted, hist, stats, calc>>

\* selectDailyCardIds of the weighted strategy, up to its while loop
WeightedCall ==
    /\ sel.pc = "ready"
    /\ sel' = IF Len(cards) = 0
              THEN [sel EXCEPT !.pc = "done", !.strategy = "weighted",
                               !.count = WeightedCount(user, sel.options),
                               !.result = Some(<<>>)]
              ELSE [sel EXCEPT !.pc = "loop", !.strategy = "weighted",
                               !.count = WeightedCount(user, sel.options)]
    /\ lastOp' = "selectDailyCardIds"
    /\ UNCHANGED <<today, user, skillTree, cards, todaysMissions, persisted,
                   view, alerted, hist, stats, calc>>

\* a plausible slip: the cap is tested with <=, one draw too many
WeightedLoopCondition_inclusive ==
    /\ Len(sel.selectedIds) < sel.count
    /\ sel.safetyCounter <= Len(cards) * IterationsPerCard

WeightedLoopCondition ==
    /\ Len(sel.selectedIds) < sel.count
    /\ sel.safetyCounter < Len(cards) * IterationsPerCard

\* one iteration of the while loop: a draw, skipped if the card was used
WeightedIterate(i) ==
    /\ sel.pc = "loop"
    /\ WeightedLoopCondition
    /\ i \in WeightedPickable(cards, computeDomainWeights(user, cards))
    /\ sel' = [sel EXCEPT
                 !.safetyCounter = @ + 1,
                 !.selectedIds = IF Includes(@, cards[i].id) THEN @
                                 ELSE Append(@, cards[i].id)]
    /\ lastOp' = "draw"
    /\ UNCHANGED <<today, user, skillTree, cards, todaysMissions, persisted,
                   view, alerted, hist, stats, calc>>

\* the loop condition fails: return selectedIds
WeightedReturn ==
    /\ sel.pc = "loop"
    /\ ~WeightedLoopCondition
    /\ sel' = [sel EXCEPT !.pc = "done", !.result = Some(sel.selectedIds)]
    /\ lastOp' = "return"
    /\ UNCHANGED <<today, user, skillTree, cards, todaysMissions, persisted,
                   view, alerted, hist, stats, calc>>

NextSelect ==
    \/ MixerCall
    \/ WeightedCall
    \/ \E i \in 1..Len(CardUniverse) : WeightedIterate(i)
    \/ WeightedReturn

SpecSelect == InitSelect /\ [][NextSelect]_vars

----------------------------------------------------------------------------
(* Claims on the mission selectors *)

\* the cards of the pool that are candidates: those not disabled
Candidates == SelectSeq(cards, LAMBDA c : ~c.disabled)

\* C7: for both strategies, any pool of cards with distinct ids (here: none of
\* them disabled) and any requested count >= 1, the returned ids are pairwise
\* distinct, no more than the requested count, and exactly as many as the
\* pool has cards when the pool has fewer than the requested count.
C7_DistinctAndWithinCount ==
    (sel.pc = "done" /\ sel.count >= 1 /\ Candidates = cards) =>
        /\ NoDuplicates(sel.result[1])
        /\ Len(sel.result[1]) <= sel.count
        /\ Len(Candidates) < sel.count => Len(sel.result[1]) = Len(Candidates)

\* C8: the number of missions is options.count when present (the only
\* override the callers pass), otherwise user.settings.daily_card_count,
\* otherwise the strategy's fixed default.
C8_CountFromOptionsThenSettings ==
    (sel.pc \in {"loop", "done"} /\ Len(cards) > 0 /\ sel.options.dailyCount = Absent) =>
        sel.count = IF sel.options.count # Absent THEN sel.options.count[1]
                    ELSE IF user.settings.daily_card_count # Absent
                         THEN user.settings.daily_card_count[1]
                         ELSE IF sel.strategy = "mixer" THEN MixerDefaultCount
                              ELSE WeightedDefaultCount

\* C9: no disabled card is ever among the selected ids, for either strategy.
C9_NoDisabledCardSelected ==
    sel.pc = "done" =>
        \A i \in 1..Len(cards) :
            cards[i].disabled => ~Includes(sel.result[1], cards[i].id)


----------------------------------------------------------------------------
(* Claims on normal play *)

\* C3: no step of normal play (complete a mission, reroll, save settings,
\* advance the day) lowers the XP of any domain, and only the completion of a
\* card changes one.
C3_XpNeverDecreases ==
    [][/\ \A d \in DOMAIN user.xp_by_domain :
             /\ d \in DOMAIN user'.xp_by_domain
             /\ user'.xp_by_domain[d] >= user.xp_by_domain[d]
       /\ user'.xp_by_domain # user.xp_by_domain => lastOp' = "complete"]_vars

\* a completion with a streak bonus raised a domain's XP, and the day went on
\* with a reroll
C3_Witness ==
    /\ lastOp = "reroll"
    /\ user.last_xp_gain # Absent
    /\ user.last_xp_gain[1].gained_xp > user.last_xp_gain[1].base_xp
    /\ Get(user.xp_by_domain, "physical", 0) >= 6

\* the allowance of a day as the claim words it
AllowanceOfStreak(streak) ==
    IF streak < 7 THEN 0 ELSE IF streak <= 13 THEN 1 ELSE 2

\* the run of active days that ends on day d
StreakEndingOn(u, d) == computeStreakStats(u, d).currentStreak

\* C5: for every date d, rerolls_by_date[d] never decreases and never exceeds
\* the bonus-roll allowance of day d: 0 for a streak below 7, 1 for 7 to 13,
\* 2 for 14 or more.
C5_RerollsGrowWithinAllowance ==
    [][/\ \A d \in DOMAIN user.rerolls_by_date :
             /\ d \in DOMAIN user'.rerolls_by_date
             /\ user'.rerolls_by_date[d] >= user.rerolls_by_date[d]
       /\ \A d \in DOMAIN user'.rerolls_by_date :
             user'.rerolls_by_date[d] <= AllowanceOfStreak(StreakEndingOn(user', d))]_vars

\* both bonus rolls of a 14-day streak were used, and the next day has begun
C5_Witness ==
    /\ today # AppStartDay
    /\ UsedRolls(user, AppStartDay) = 2
    /\ StreakEndingOn(user, AppStartDay) = 14

\* C6: a reroll requested when the day's used rerolls have reached the
\* allowance changes nothing: today's missions, the user in memory and the
\* persisted user stay as they were.
C6_ExhaustedRerollChangesNothing ==
    [][(/\ lastOp' = "reroll"
        /\ UsedRolls(user, today) >= AllowanceOfStreak(StreakEndingOn(user, today)))
       => /\ todaysMissions' = todaysMissions
          /\ user' = user
          /\ persisted' = persisted]_vars

\* yesterday's bonus roll was used; the Reroll button left on the page was
\* clicked after midnight, and the request was turned down
C6_Witness ==
    /\ alerted
    /\ lastOp = "reroll"
    /\ today # AppStartDay
    /\ UsedRolls(user, AppStartDay) >= 1
    /\ UsedRolls(user, today) >= AllowedRolls(user, today)

----------------------------------------------------------------------------
(* Fractions: a JS number that is a quotient of two integers is kept as the
   pair <<numerator, denominator>> with a positive denominator *)

Frac(n, d) == <<n, d>>

FracEq(a, b) == a[1] * b[2] = b[1] * a[2]

FracLess(a, b) == a[1] * b[2] < b[1] * a[2]

\* Math.max(0, Math.min(1, n / d)) for d > 0
Clamp01(n, d) ==
    IF n < 0 THEN Frac(0, 1)
    ELSE IF n > d THEN Frac(1, 1)
    ELSE Frac(n, d)

----------------------------------------------------------------------------
(* Skill overview engine (skill_overview_engine.js) *)

MAX_LEVEL == 50

\* Math.round(required * 1.2) for an integer required; 1.2 * required is
\* never halfway between two integers
GrowRequired(required) == (required * 12 + 5) \div 10

\* the while loop of computeInfiniteLevel
RECURSIVE InfiniteLevelLoop(_, _, _)
InfiniteLevelLoop(level, required, remaining) ==
    IF remaining >= required /\ level < MAX_LEVEL
    THEN InfiniteLevelLoop(level + 1, GrowRequired(required), remaining - required)
    ELSE [level |-> level, required |-> required, remaining |-> remaining]

\* a plausible slip: the loop stops when remaining equals required
RECURSIVE InfiniteLevelLoop_strict(_, _, _)
InfiniteLevelLoop_strict(level, required, remaining) ==
    IF remaining > required /\ level < MAX_LEVEL
    THEN InfiniteLevelLoop_strict(level + 1, GrowRequired(required), remaining - required)
    ELSE [level |-> level, required |-> required, remaining |-> remaining]

computeInfiniteLevel_strict(totalXp, baseRequired) ==
    LET end == InfiniteLevelLoop_strict(0, baseRequired, Max2(0, totalXp))
    IN [level      |-> end.level,
        progress   |-> IF end.required > 0
                       THEN Clamp01(end.remaining, end.required)
                       ELSE Frac(0, 1),
        requiredXp |-> end.required]

computeInfiniteLevel(totalXp, baseRequired) ==
    LET end == InfiniteLevelLoop(0, baseRequired, Max2(0, totalXp))
    IN [level      |-> end.level,
        progress   |-> IF end.required > 0
                       THEN Clamp01(end.remaining, end.required)
                       ELSE Frac(0, 1),
        requiredXp |-> end.required]

FallbackRequired == 500

BaseRequired(node) ==
    IF node.xp_required > 0 THEN node.xp_required ELSE FallbackRequired

\* skillTree.map(...): one entry per node, in the order of the tree
computeSkillOverview(u, tree) ==
    [i \in 1..Len(tree) |->
        LET node    == tree[i]
            totalXp == SumXpOfDomains(u.xp_by_domain, node.domains, 1)
            lvl     == computeInfiniteLevel(totalXp, BaseRequired(node))
        IN [id              |-> node.id,
            totalXp         |-> totalXp,
            level           |-> lvl.level,
            levelProgress   |-> lvl.progress,
            levelRequiredXp |-> lvl.requiredXp]]

----------------------------------------------------------------------------
(* Officer engine (officer_engine.js) *)

LevelSize == 100

getRankName(level) ==
    IF level >= 20 THEN "Prime Architect"
    ELSE IF level >= 15 THEN "Senior Strategist"
    ELSE IF level >= 10 THEN "Field Architect"
    ELSE IF level >= 7 THEN "Senior Operator"
    ELSE IF level >= 4 THEN "Junior Operator"
    ELSE "Initiate"

\* a plausible slip: levels counted from 0
computeOfficerStats_zero(u) ==
    LET xpByDomain == u.xp_by_domain
        totalXp    == SumOver(xpByDomain, DOMAIN xpByDomain)
        level      == totalXp \div LevelSize
    IN [totalXp       |-> totalXp,
        level         |-> level,
        xpIntoLevel   |-> totalXp % LevelSize,
        xpForLevel    |-> LevelSize,
        progress      |-> Frac(totalXp % LevelSize, LevelSize),
        primaryDomain |-> {d \in DOMAIN xpByDomain :
                              \A e \in DOMAIN xpByDomain : xpByDomain[e] <= xpByDomain[d]},
        domainBreakdown |->
            {[domain |-> d, xp |-> xpByDomain[d],
              share  |-> IF totalXp > 0 THEN Frac(xpByDomain[d], totalXp)
                         ELSE Frac(0, 1)] : d \in DOMAIN xpByDomain},
        rankName      |-> getRankName(level)]

\* domainBreakdown is kept as the set of its entries; primaryDomain is the
\* set of domains of highest XP, of which the code returns the one that
\* Object.entries lists first
computeOfficerStats(u) ==
    LET xpByDomain == u.xp_by_domain
        totalXp    == SumOver(xpByDomain, DOMAIN xpByDomain)
        level      == Max2(1, (totalXp \div LevelSize) + 1)
    IN [totalXp       |-> totalXp,
        level         |-> level,
        xpIntoLevel   |-> totalXp % LevelSize,
        xpForLevel    |-> LevelSize,
        progress      |-> Frac(totalXp % LevelSize, LevelSize),
        primaryDomain |-> {d \in DOMAIN xpByDomain :
                              \A e \in DOMAIN xpByDomain : xpByDomain[e] <= xpByDomain[d]},
        domainBreakdown |->
            {[domain |-> d, xp |-> xpByDomain[d],
              share  |-> IF totalXp > 0 THEN Frac(xpByDomain[d], totalXp)
                         ELSE Frac(0, 1)] : d \in DOMAIN xpByDomain},
        rankName      |-> getRankName(level)]

----------------------------------------------------------------------------
(* SpecLevels: one call of computeXpMultiplier, computeSkillOverview or
   computeOfficerStats on each input of a bounded set *)

LevelXpValues == {0, 30, 99, 100, 120, 250}

LevelUsers ==
    {User(xp, EmptyMap, <<>>, EmptyMap, Settings(Absent, "dark")) :
        xp \in UNION {[S -> LevelXpValues] : S \in SUBSET {"academic", "physical"}}}

LevelNodeA == Node("n1", <<"academic">>, 100, <<>>)
LevelNodeB == Node("n2", <<"academic", "physical">>, 1, <<>>)
LevelNodeC == Node("n3", <<>>, 0, <<>>)

LevelTrees ==
    {<<LevelNodeA>>, <<LevelNodeB>>, <<LevelNodeC>>,
     <<LevelNodeC, LevelNodeB, LevelNodeA>>}

ReadyCalc(fn, args) == [pc |-> "ready", fn |-> fn, args |-> args, result |-> Absent]

InitLevels ==
    /\ today = FirstDay
    /\ user \in LevelUsers
    /\ skillTree \in LevelTrees
    /\ cards = <<>>
    /\ todaysMissions = <<>>
    /\ persisted = Absent
    /\ view = IdleView
    /\ lastOp = "init"
    /\ alerted = FALSE
    /\ hist = IdleHist
    /\ sel = IdleSel
    /\ stats = Absent
    /\ \/ \E s \in 0..MaxStreak : calc = ReadyCalc("computeXpMultiplier", <<s>>)
       \/ calc = ReadyCalc("computeSkillOverview", <<>>)
       \/ calc = ReadyCalc("computeOfficerStats", <<>>)

Return(value) ==
    /\ calc' = [calc EXCEPT !.pc = "done", !.result = Some(value)]
    /\ lastOp' = calc.fn
    /\ UNCHANGED <<today, user, skillTree, cards, todaysMissions, persisted,
                   view, alerted, hist, sel, stats>>

ComputeXpMultiplierCall ==
    /\ calc.pc = "ready"
    /\ calc.fn = "computeXpMultiplier"
    /\ Return(computeXpMultiplier(calc.args[1]))

ComputeSkillOverviewCall ==
    /\ calc.pc = "ready"
    /\ calc.fn = "computeSkillOverview"
    /\ Return(computeSkillOverview(user, skillTree))

ComputeOfficerStatsCall ==
    /\ calc.pc = "ready"
    /\ calc.fn = "computeOfficerStats"
    /\ Return(computeOfficerStats(user))

NextLevels ==
    \/ ComputeXpMultiplierCall
    \/ ComputeSkillOverviewCall
    \/ ComputeOfficerStatsCall

SpecLevels == InitLevels /\ [][NextLevels]_vars

Returned(fn) == calc.pc = "done" /\ calc.fn = fn

----------------------------------------------------------------------------
(* Claims on the level and multiplier functions, checked under SpecLevels *)

\* the bands of the multiplier table, in tenths
MultiplierBand(streak) ==
    CASE streak \in 0..2   -> 10
      [] streak \in 3..6   -> 11
      [] streak \in 7..13  -> 12
      [] streak \in 14..29 -> 13
      [] OTHER             -> 15

\* C11: computeXpMultiplier returns x1.0 for a streak of 0 to 2, x1.1 for 3
\* to 6, x1.2 for 7 to 13, x1.3 for 14 to 29 and x1.5 from 30 on; it is never
\* below x1.0 and no shorter streak has a higher multiplier.
C11_MultiplierBands ==
    Returned("computeXpMultiplier") =>
        LET streak == calc.args[1]
            m      == calc.result[1]
        IN /\ m = MultiplierBand(streak)
           /\ m >= 10
           /\ \A shorter \in 0..streak : computeXpMultiplier(shorter) <= m

C11_Witness ==
    /\ Returned("computeXpMultiplier")
    /\ calc.args[1] = 30
    /\ calc.result[1] = 15

\* the integer nearest to 1.2 x r
NearestToTimes12(r) == CHOOSE n \in 0..(2 * r + 1) : 10 * n - 5 <= 12 * r /\ 12 * r < 10 * n + 5

\* the reference curve: the XP that level k + 1 costs ...
RECURSIVE RequiredAt(_, _)
RequiredAt(base, k) ==
    IF k = 0 THEN base ELSE NearestToTimes12(RequiredAt(base, k - 1))

\* ... and the XP that reaching level k has consumed
RECURSIVE ConsumedAt(_, _)
ConsumedAt(base, k) ==
    IF k = 0 THEN 0 ELSE ConsumedAt(base, k - 1) + RequiredAt(base, k - 1)

OverviewEntries ==
    {<<skillTree[i], calc.result[1][i]>> : i \in 1..Len(skillTree)}

\* C15: the level of every node follows the reference curve (level 0 costs
\* base, each further level 20% more, rounded): below the cap of 50 the XP
\* consumed by the levels reached plus the remainder is the node's XP, the
\* remainder is less than the next level's cost, and progress is their
\* quotient; for base 100, XP 0 is level 0 with progress 0, XP 100 is level 1
\* with 120 required, XP 250 is level 2 with 30 of 144.
C15_InfiniteLevelFollowsCurve ==
    Returned("computeSkillOverview") =>
        \A pair \in OverviewEntries :
            LET node  == pair[1]
                entry == pair[2]
                base  == IF node.xp_required > 0 THEN node.xp_required ELSE 500
                xp    == entry.totalXp
                rest  == xp - ConsumedAt(base, entry.level)
            IN /\ entry.level < 50 =>
                     /\ 0 <= rest
                     /\ rest < RequiredAt(base, entry.level)
                     /\ entry.levelRequiredXp = RequiredAt(base, entry.level)
                     /\ FracEq(entry.levelProgress, Frac(rest, entry.levelRequiredXp))
               /\ (base = 100 /\ xp = 0) =>
                     entry.level = 0 /\ FracEq(entry.levelProgress, Frac(0, 1))
               /\ (base = 100 /\ xp = 100) =>
                     entry.level = 1 /\ entry.levelRequiredXp = 120
               /\ (base = 100 /\ xp = 250) =>
                     /\ entry.level = 2
                     /\ entry.levelRequiredXp = 144
                     /\ FracEq(entry.levelProgress, Frac(30, 144))

C15_Witness ==
    /\ Returned("computeSkillOverview")
    /\ \E pair \in OverviewEntries :
          /\ pair[1].xp_required = 100
          /\ pair[2].totalXp = 250
          /\ pair[2].level = 2
    /\ \E pair \in OverviewEntries : pair[2].level = 50

\* C16: computeOfficerStats returns totalXp = the sum of the domain XP,
\* level = floor(totalXp / 100) + 1 >= 1 and xpIntoLevel = totalXp mod 100, so
\* totalXp = (level - 1) x 100 + xpIntoLevel with 0 <= xpIntoLevel < 100; a
\* total of 350 is level 4 with 50 XP into the level and progress one half.
C16_OfficerLevelArithmetic ==
    Returned("computeOfficerStats") =>
        LET r == calc.result[1]
        IN /\ r.totalXp = Get(user.xp_by_domain, "academic", 0)
                          + Get(user.xp_by_domain, "physical", 0)
           /\ r.level >= 1
           /\ 0 <= r.xpIntoLevel /\ r.xpIntoLevel < 100
           /\ r.totalXp = (r.level - 1) * 100 + r.xpIntoLevel
           /\ FracEq(r.progress, Frac(r.xpIntoLevel, 100))
           /\ r.totalXp = 350 =>
                 /\ r.level = 4
                 /\ r.xpIntoLevel = 50
                 /\ FracEq(r.progress, Frac(1, 2))

C16_Witness ==
    /\ Returned("computeOfficerStats")
    /\ DOMAIN user.xp_by_domain = {"academic", "physical"}
    /\ calc.result[1].totalXp = 350
    /\ calc.result[1].level = 4

----------------------------------------------------------------------------
(* Timeline engine (timeline_engine.js) *)

\* leap days before 1 January of year y
LeapDaysBefore(y) == ((y - 1) \div 4) - ((y - 1) \div 100) + ((y - 1) \div 400)

RECURSIVE DaysBeforeMonth(_, _)
DaysBeforeMonth(y, m) ==
    IF m <= 1 THEN 0 ELSE DaysBeforeMonth(y, m - 1) + DaysInMonth(y, m - 1)

\* Date.prototype.getTime() of a local midnight, in days (86,400,000 ms);
\* the local days of the plan are all 24 hours long
getTime(date) ==
    365 * date[1] + LeapDaysBefore(date[1]) + DaysBeforeMonth(date[1], date[2]) + date[3]

Phase(id, start, end) == [id |-> id, start_date |-> start, end_date |-> end]

compareDateStrings(a, b) ==
    IF a = b THEN 0 ELSE IF DateLess(a, b) THEN -1 ELSE 1

\* Array.prototype.sort is stable: a phase goes behind those that do not
\* compare greater
InsertByStart(sorted, phase) ==
    LET behind == {i \in 1..Len(sorted) :
                      compareDateStrings(sorted[i].start_date, phase.start_date) <= 0}
        k      == IF behind = {} THEN 0 ELSE MaxOf(behind)
    IN SubSeq(sorted, 1, k) \o <<phase>> \o SubSeq(sorted, k + 1, Len(sorted))

RECURSIVE SortByStart(_, _, _)
SortByStart(phases, i, sorted) ==
    IF i > Len(phases) THEN sorted
    ELSE SortByStart(phases, i + 1, InsertByStart(sorted, phases[i]))

\* options.date ? parseDate(options.date) : todayDate()
TargetDate(dateOpt, now) == IF dateOpt # Absent THEN parseDate(dateOpt[1]) ELSE now

\* the for-loop of getCurrentPhase from phase i on
RECURSIVE CurrentPhaseLoop(_, _, _, _)
CurrentPhaseLoop(sorted, i, targetDate, current) ==
    IF i > Len(sorted) THEN current
    ELSE LET phase == sorted[i]
             start == getTime(parseDate(phase.start_date))
             end   == getTime(parseDate(phase.end_date))
             t     == getTime(targetDate)
         IN IF t >= start /\ t <= end THEN Some(phase)
            ELSE CurrentPhaseLoop(sorted, i + 1, targetDate,
                                  IF t > end THEN Some(phase) ELSE current)

\* a plausible slip: the fallback keeps the first finished phase
RECURSIVE CurrentPhaseLoop_first(_, _, _, _)
CurrentPhaseLoop_first(sorted, i, targetDate, current) ==
    IF i > Len(sorted) THEN current
    ELSE LET phase == sorted[i]
             start == getTime(parseDate(phase.start_date))
             end   == getTime(parseDate(phase.end_date))
             t     == getTime(targetDate)
         IN IF t >= start /\ t <= end THEN Some(phase)
            ELSE CurrentPhaseLoop_first(sorted, i + 1, targetDate,
                     IF t > end /\ current = Absent THEN Some(phase) ELSE current)

getCurrentPhase_first(phases, dateOpt, now) ==
    IF Len(phases) = 0 THEN Absent
    ELSE CurrentPhaseLoop_first(SortByStart(phases, 1, <<>>), 1,
                                TargetDate(dateOpt, now), Absent)

\* getCurrentPhase(phases, {date}); the result is Absent for null
getCurrentPhase(phases, dateOpt, now) ==
    IF Len(phases) = 0 THEN Absent
    ELSE CurrentPhaseLoop(SortByStart(phases, 1, <<>>), 1,
                          TargetDate(dateOpt, now), Absent)

\* a plausible slip: days counted inclusively at both ends
computePhaseProgress_inclusive(target, start, end) ==
    LET totalMs   == getTime(end) - getTime(start)
        elapsedMs == getTime(target) - getTime(start)
    IN IF totalMs <= 0 THEN Frac(1, 1)
       ELSE IF elapsedMs < 0 THEN Frac(0, 1)
       ELSE IF elapsedMs > totalMs THEN Frac(1, 1)
       ELSE Frac(elapsedMs + 1, totalMs + 1)

computePhaseProgress(target, start, end) ==
    LET totalMs   == getTime(end) - getTime(start)
        elapsedMs == getTime(target) - getTime(start)
    IN IF totalMs <= 0 THEN Frac(1, 1)
       ELSE IF elapsedMs < 0 THEN Frac(0, 1)
       ELSE IF elapsedMs > totalMs THEN Frac(1, 1)
       ELSE Frac(elapsedMs, totalMs)

PhaseView(phase, targetDate) ==
    LET start == parseDate(phase.start_date)
        end   == parseDate(phase.end_date)
    IN IF getTime(targetDate) < getTime(start)
       THEN [phase |-> phase, timeStatus |-> "future", progress |-> Frac(0, 1)]
       ELSE IF getTime(targetDate) > getTime(end)
       THEN [phase |-> phase, timeStatus |-> "past", progress |-> Frac(1, 1)]
       ELSE [phase |-> phase, timeStatus |-> "current",
             progress |-> computePhaseProgress(targetDate, start, end)]

\* computeTimelineView(phases, {date})
computeTimelineView(phases, dateOpt, now) ==
    IF Len(phases) = 0 THEN <<>>
    ELSE LET sorted == SortByStart(phases, 1, <<>>)
         IN [i \in 1..Len(sorted) |-> PhaseView(sorted[i], TargetDate(dateOpt, now))]

----------------------------------------------------------------------------
(* SpecTimeline: one call of getCurrentPhase or computeTimelineView on a
   list of phases, with the date taken from the options or from the clock.
   The phases are those of a calendar plan: start_date <= end_date and no two
   overlap; the list is in any order. *)

PhaseOne   == Phase("p1", <<2025, 1, 1>>, <<2025, 1, 10>>)
PhaseTwo   == Phase("p2", <<2025, 1, 11>>, <<2025, 1, 11>>)
PhaseThree == Phase("p3", <<2025, 1, 20>>, <<2025, 2, 2>>)

\* every list of distinct phases, in every order
PhaseLists ==
    LET all == {PhaseOne, PhaseTwo, PhaseThree}
    IN {<<>>} \cup {<<a>> : a \in all}
       \cup {pair \in all \X all : pair[1] # pair[2]}
       \cup Permutations3(PhaseOne, PhaseTwo, PhaseThree)

TimelineFirstDay == <<2024, 12, 30>>
TimelineWindow == DaysFrom(TimelineFirstDay, TimelineDays)
TimelineDateOptions == {Absent, Some(<<2025, 1, 5>>), Some(<<2025, 2, 3>>)}

InitTimeline ==
    /\ today \in TimelineWindow
    /\ user = User(EmptyMap, EmptyMap, <<>>, EmptyMap, Settings(Absent, "dark"))
    /\ skillTree = <<>>
    /\ cards = <<>>
    /\ todaysMissions = <<>>
    /\ persisted = Absent
    /\ view = IdleView
    /\ lastOp = "init"
    /\ alerted = FALSE
    /\ hist = IdleHist
    /\ sel = IdleSel
    /\ stats = Absent
    /\ \E fn \in {"getCurrentPhase", "computeTimelineView"},
          phases \in PhaseLists, dateOpt \in TimelineDateOptions :
          calc = ReadyCalc(fn, <<phases, dateOpt>>)

GetCurrentPhaseCall ==
    /\ calc.pc = "ready"
    /\ calc.fn = "getCurrentPhase"
    /\ Return(getCurrentPhase(calc.args[1], calc.args[2], today))

ComputeTimelineViewCall ==
    /\ calc.pc = "ready"
    /\ calc.fn = "computeTimelineView"
    /\ Return(computeTimelineView(calc.args[1], calc.args[2], today))

NextTimeline ==
    \/ GetCurrentPhaseCall
    \/ ComputeTimelineViewCall

SpecTimeline == InitTimeline /\ [][NextTimeline]_vars

----------------------------------------------------------------------------
(* Claims on the timeline engine, checked under SpecTimeline *)

\* a <= b on two ISO dates
DateLeq(a, b) == a = b \/ DateLess(a, b)

\* the date the call is evaluated at
CallDate == IF calc.args[2] # Absent THEN calc.args[2][1] ELSE today

CallPhases == Range(calc.args[1])

\* C17: getCurrentPhase, for phases in any input order, returns the phase
\* whose range [start_date, end_date] contains the date; returns the
\* latest-ending phase when the date is after every phase's end; returns
\* null when the date precedes every phase's start.
C17_CurrentPhaseLookup ==
    Returned("getCurrentPhase") =>
        LET date   == CallDate
            within == {p \in CallPhases :
                          DateLeq(p.start_date, date) /\ DateLeq(date, p.end_date)}
        IN /\ within # {} => calc.result[1] \in {Some(p) : p \in within}
           /\ (CallPhases # {} /\ \A p \in CallPhases : DateLess(p.end_date, date)) =>
                 \E last \in CallPhases :
                    /\ \A p \in CallPhases : DateLeq(p.end_date, last.end_date)
                    /\ calc.result[1] = Some(last)
           /\ (\A p \in CallPhases : DateLess(date, p.start_date)) =>
                 calc.result[1] = Absent

\* the date lies after two phases given latest first, and the later is returned
C17_Witness ==
    /\ Returned("getCurrentPhase")
    /\ calc.args[1] = <<PhaseThree, PhaseOne>>
    /\ CallDate = <<2025, 2, 3>>
    /\ calc.result[1] = Some(PhaseThree)

\* the number of days from date a to a later date b of the plan
DaysApart(a, b) == CHOOSE n \in 0..366 : addDays(a, n) = b

\* C18: computeTimelineView returns one entry per phase, ordered by start
\* date whatever the input order; an entry is future with progress 0 when the
\* date is before the start, past with progress 1 when it is after the end,
\* and otherwise current with progress (date - start) / (end - start), a
\* zero-length phase reporting 1; the phase 2025-01-01 to 2025-01-10 at
\* 2025-01-05 is current with progress 4/9.
C18_TimelineView ==
    Returned("computeTimelineView") =>
        LET date    == CallDate
            entries == calc.result[1]
        IN /\ Len(entries) = Len(calc.args[1])
           /\ {entries[i].phase : i \in 1..Len(entries)} = CallPhases
           /\ \A i, j \in 1..Len(entries) :
                 i < j => DateLeq(entries[i].phase.start_date, entries[j].phase.start_date)
           /\ \A i \in 1..Len(entries) :
                 LET e     == entries[i]
                     start == e.phase.start_date
                     end   == e.phase.end_date
                 IN IF DateLess(date, start)
                    THEN e.timeStatus = "future" /\ FracEq(e.progress, Frac(0, 1))
                    ELSE IF DateLess(end, date)
                    THEN e.timeStatus = "past" /\ FracEq(e.progress, Frac(1, 1))
                    ELSE /\ e.timeStatus = "current"
                         /\ FracEq(e.progress,
                                   IF start = end THEN Frac(1, 1)
                                   ELSE Frac(DaysApart(start, date), DaysApart(start, end)))
                         /\ ~FracLess(e.progress, Frac(0, 1))
                         /\ ~FracLess(Frac(1, 1), e.progress)
                         /\ (e.phase = PhaseOne /\ date = <<2025, 1, 5>>) =>
                               FracEq(e.progress, Frac(4, 9))

\* three phases given latest first, evaluated inside the first of the plan
C18_Witness ==
    /\ Returned("computeTimelineView")
    /\ calc.args[1] = <<PhaseThree, PhaseTwo, PhaseOne>>
    /\ CallDate = <<2025, 1, 5>>
    /\ calc.result[1][1] = [phase |-> PhaseOne, timeStatus |-> "current",
                            progress |-> Frac(4, 9)]
    /\ calc.result[1][3].timeStatus = "future"

----------------------------------------------------------------------------
(* Reflection engine (reflection_engine.js) *)

Reflection(id, date, consistency) ==
    [id |-> id, date |-> date, consistency |-> consistency]

\* fromDate and toDate are optional Dates (null when the option is missing)
isDateInRange(dateStr, fromDate, toDate) ==
    LET d == parseDate(dateStr)
    IN /\ ~(fromDate # Absent /\ getTime(d) < getTime(fromDate[1]))
       /\ ~(toDate # Absent /\ getTime(d) > getTime(toDate[1]))

RECURSIVE SumConsistency(_, _)
SumConsistency(reflections, i) ==
    IF i > Len(reflections) THEN 0
    ELSE reflections[i].consistency + SumConsistency(reflections, i + 1)

\* sum / length, 0 for no reflections
computeAverageConsistency(reflections) ==
    IF Len(reflections) = 0 THEN Frac(0, 1)
    ELSE Frac(SumConsistency(reflections, 1), Len(reflections))

\* the stable sort by compareDateStrings(a.date, b.date)
InsertByDate(sorted, r) ==
    LET behind == {i \in 1..Len(sorted) : compareDateStrings(sorted[i].date, r.date) <= 0}
        k      == IF behind = {} THEN 0 ELSE MaxOf(behind)
    IN SubSeq(sorted, 1, k) \o <<r>> \o SubSeq(sorted, k + 1, Len(sorted))

RECURSIVE SortByDate(_, _, _)
SortByDate(reflections, i, sorted) ==
    IF i > Len(reflections) THEN sorted
    ELSE SortByDate(reflections, i + 1, InsertByDate(sorted, reflections[i]))

TrendThreshold == 5

\* avgNew - avgOld against a whole number k: the sign of the difference
\* avgNew - avgOld - k, scaled by both lengths
DeltaAgainst(avgNew, avgOld, k) ==
    avgNew[1] * avgOld[2] - avgOld[1] * avgNew[2] - k * avgNew[2] * avgOld[2]

\* a plausible slip: a difference of exactly the threshold is a trend
computeConsistencyTrend_inclusive(reflections, fromDate, toDate) ==
    LET inRange == SortByDate(
                      SelectSeq(reflections,
                                LAMBDA r : isDateInRange(r.date, fromDate, toDate)),
                      1, <<>>)
        mid     == Len(inRange) \div 2
        avgOld  == computeAverageConsistency(SubSeq(inRange, 1, mid))
        avgNew  == computeAverageConsistency(SubSeq(inRange, mid + 1, Len(inRange)))
    IN IF Len(inRange) < 4 THEN "insufficient_data"
       ELSE IF DeltaAgainst(avgNew, avgOld, TrendThreshold) >= 0 THEN "improving"
       ELSE IF DeltaAgainst(avgNew, avgOld, -TrendThreshold) <= 0 THEN "declining"
       ELSE "stable"

computeConsistencyTrend(reflections, fromDate, toDate) ==
    LET inRange == SortByDate(
                      SelectSeq(reflections,
                                LAMBDA r : isDateInRange(r.date, fromDate, toDate)),
                      1, <<>>)
        mid     == Len(inRange) \div 2
        avgOld  == computeAverageConsistency(SubSeq(inRange, 1, mid))
        avgNew  == computeAverageConsistency(SubSeq(inRange, mid + 1, Len(inRange)))
    IN IF Len(inRange) < 4 THEN "insufficient_data"
       ELSE IF DeltaAgainst(avgNew, avgOld, TrendThreshold) > 0 THEN "improving"
       ELSE IF DeltaAgainst(avgNew, avgOld, -TrendThreshold) < 0 THEN "declining"
       ELSE "stable"

\* Math.floor(diffMs / msPerDay) + 1, 0 when end is before start
diffDaysInclusive(start, end) ==
    IF getTime(end) - getTime(start) < 0 THEN 0
    ELSE getTime(end) - getTime(start) + 1

\* the first and the last of a non-empty set of ISO dates, as sort leaves them
EarliestDate(dates) == CHOOSE d \in dates : \A e \in dates : ~DateLess(e, d)
LatestDate(dates) == CHOOSE d \in dates : \A e \in dates : ~DateLess(d, e)

computeActivityStats(u, fromDate, toDate) ==
    LET completedByDate == u.completed_cards_by_date
        allDates   == DOMAIN completedByDate
        rangeStart == IF fromDate # Absent THEN fromDate[1]
                      ELSE parseDate(EarliestDate(allDates))
        rangeEnd   == IF toDate # Absent THEN toDate[1]
                      ELSE parseDate(LatestDate(allDates))
        activityDays ==
            Cardinality({d \in allDates :
                            /\ getTime(parseDate(d)) >= getTime(rangeStart)
                            /\ getTime(parseDate(d)) <= getTime(rangeEnd)
                            /\ Len(completedByDate[d]) > 0})
        totalDays  == diffDaysInclusive(rangeStart, rangeEnd)
    IN IF allDates = {}
       THEN [activityDays |-> 0, totalDays |-> 0, activityRatio |-> Frac(0, 1)]
       ELSE [activityDays  |-> activityDays,
             totalDays     |-> totalDays,
             activityRatio |-> IF totalDays > 0 THEN Frac(activityDays, totalDays)
                               ELSE Frac(0, 1)]

\* a plausible slip: a declining trend alone is a high risk
computeDriftRisk_declining(avgConsistency, activityRatio, consistencyTrend) ==
    IF consistencyTrend = "declining" THEN "high"
    ELSE IF FracLess(activityRatio, Frac(3, 10)) /\ FracLess(avgConsistency, Frac(50, 1))
    THEN "high"
    ELSE IF /\ FracLess(Frac(6, 10), activityRatio)
            /\ FracLess(Frac(70, 1), avgConsistency)
            /\ consistencyTrend \in {"improving", "stable"}
    THEN "low"
    ELSE "medium"

\* the thresholds 0.4, 0.3 and 0.6 are the fractions 4/10, 3/10 and 6/10
computeDriftRisk(avgConsistency, activityRatio, consistencyTrend) ==
    IF consistencyTrend = "declining"
    THEN IF \/ FracLess(activityRatio, Frac(4, 10))
            \/ FracLess(avgConsistency, Frac(60, 1))
         THEN "high"
         ELSE "medium"
    ELSE IF FracLess(activityRatio, Frac(3, 10)) /\ FracLess(avgConsistency, Frac(50, 1))
    THEN "high"
    ELSE IF /\ FracLess(Frac(6, 10), activityRatio)
            /\ FracLess(Frac(70, 1), avgConsistency)
            /\ consistencyTrend \in {"improving", "stable"}
    THEN "low"
    ELSE "medium"

\* computeReflectionStats(user, reflections, {fromDate, toDate}); the options
\* are optional ISO dates
computeReflectionStats(u, reflections, fromOpt, toOpt) ==
    LET fromDate == IF fromOpt # Absent THEN Some(parseDate(fromOpt[1])) ELSE Absent
        toDate   == IF toOpt # Absent THEN Some(parseDate(toOpt[1])) ELSE Absent
        filteredReflections ==
            SelectSeq(reflections, LAMBDA r : isDateInRange(r.date, fromDate, toDate))
        avgConsistency   == computeAverageConsistency(filteredReflections)
        activity         == computeActivityStats(u, fromDate, toDate)
        consistencyTrend == computeConsistencyTrend(reflections, fromDate, toDate)
    IN [avgConsistency   |-> avgConsistency,
        activityDays     |-> activity.activityDays,
        totalDays        |-> activity.totalDays,
        activityRatio    |-> activity.activityRatio,
        consistencyTrend |-> consistencyTrend,
        driftRisk        |-> computeDriftRisk(avgConsistency, activity.activityRatio,
                                              consistencyTrend)]

----------------------------------------------------------------------------
(* SpecReflect: one call of computeReflectionStats on a list of reflections,
   an activity log and a date range *)

ReflectEarly == <<2025, 3, 3>>
ReflectLate  == <<2025, 3, 10>>

ReflectionEntries ==
    {Reflection("r", date, consistency) :
        date \in {ReflectEarly, ReflectLate}, consistency \in {45, 55, 75}}

ReflectionLists ==
    UNION {[1..n -> ReflectionEntries] : n \in 0..MaxReflections}

\* the days 1 to 10 of March 2025, those of `active` with one completed card
MarchLog(days, active) ==
    [d \in {<<2025, 3, k>> : k \in days} |->
        IF d[3] \in active THEN <<"c1">> ELSE <<>>]

ReflectLogs ==
    { EmptyMap,
      MarchLog({1, 10}, {1, 10}),
      MarchLog(1..10, {1, 2, 10}),
      MarchLog(1..10, {1, 2, 3, 8, 9, 10}),
      MarchLog(1..10, {1, 2, 3, 4, 5, 9, 10}) }

\* no range, or the five days 1 to 5 of March
ReflectRanges ==
    { <<Absent, Absent>>, <<Some(<<2025, 3, 1>>), Some(<<2025, 3, 5>>)>> }

InitReflect ==
    /\ today = ReflectLate
    /\ \E log \in ReflectLogs :
          user = User(EmptyMap, log, <<>>, EmptyMap, Settings(Absent, "dark"))
    /\ skillTree = <<>>
    /\ cards = <<>>
    /\ todaysMissions = <<>>
    /\ persisted = Absent
    /\ view = IdleView
    /\ lastOp = "init"
    /\ alerted = FALSE
    /\ hist = IdleHist
    /\ sel = IdleSel
    /\ stats = Absent
    /\ \E reflections \in ReflectionLists, range \in ReflectRanges :
          calc = ReadyCalc("computeReflectionStats",
                           <<reflections, range[1], range[2]>>)

ComputeReflectionStatsCall ==
    /\ calc.pc = "ready"
    /\ calc.fn = "computeReflectionStats"
    /\ Return(computeReflectionStats(user, calc.args[1], calc.args[2], calc.args[3]))

NextReflect == ComputeReflectionStatsCall

SpecReflect == InitReflect /\ [][NextReflect]_vars

----------------------------------------------------------------------------
(* Claims on the reflection engine, checked under SpecReflect *)

\* the reflections of the call whose date lies in the range of the call
ReflectionsInRange ==
    SelectSeq(calc.args[1],
              LAMBDA r : /\ calc.args[2] # Absent => DateLeq(calc.args[2][1], r.date)
                         /\ calc.args[3] # Absent => DateLeq(r.date, calc.args[3][1]))

\* a list in order of date, entries of one date in the order of the list
RECURSIVE InDateOrder(_)
InDateOrder(list) ==
    IF list = <<>> THEN <<>>
    ELSE LET first == EarliestDate({list[i].date : i \in 1..Len(list)})
         IN SelectSeq(list, LAMBDA r : r.date = first)
            \o InDateOrder(SelectSeq(list, LAMBDA r : r.date # first))

RECURSIVE TotalConsistency(_)
TotalConsistency(list) ==
    IF list = <<>> THEN 0 ELSE Head(list).consistency + TotalConsistency(Tail(list))

\* C19: consistencyTrend is insufficient_data exactly when fewer than 4
\* reflections fall in the date range; from 4 on it is improving when the
\* mean of the newer half exceeds the mean of the older half by more than 5,
\* declining when it falls short of it by more than 5, and stable otherwise
\* (a difference of exactly 5 either way is stable).
C19_ConsistencyTrend ==
    Returned("computeReflectionStats") =>
        LET ordered == InDateOrder(ReflectionsInRange)
            n       == Len(ordered)
            nOld    == n \div 2
            nNew    == n - nOld
            sumOld  == TotalConsistency(SubSeq(ordered, 1, nOld))
            sumNew  == TotalConsistency(SubSeq(ordered, nOld + 1, n))
            \* (mean new - mean old) x nOld x nNew
            scaled  == sumNew * nOld - sumOld * nNew
            trend   == calc.result[1].consistencyTrend
        IN /\ trend = "insufficient_data" <=> n < 4
           /\ n >= 4 =>
                 /\ trend = "improving" <=> scaled > 5 * nOld * nNew
                 /\ trend = "declining" <=> scaled < (-5) * nOld * nNew
                 /\ trend = "stable" <=>
                       /\ scaled <= 5 * nOld * nNew
                       /\ scaled >= (-5) * nOld * nNew

\* four reflections in range, given newest first, whose halves differ by
\* exactly 5 points
C19_Witness ==
    /\ Returned("computeReflectionStats")
    /\ Len(ReflectionsInRange) = 4
    /\ calc.args[1][1].date = ReflectLate
    /\ calc.args[1][4].date = ReflectEarly
    /\ LET ordered == InDateOrder(ReflectionsInRange)
       IN TotalConsistency(SubSeq(ordered, 3, 4))
             = TotalConsistency(SubSeq(ordered, 1, 2)) + 10
    /\ calc.result[1].consistencyTrend = "stable"

----------------------------------------------------------------------------
(* Skill tree view engine (skill_tree_engine.js) *)

arePrerequisitesMet(node, completedSet) ==
    \A preId \in Range(node.prerequisites) : preId \in completedSet

determineStatus(isCompleted, allPrereqsMet) ==
    IF isCompleted THEN "completed"
    ELSE IF allPrereqsMet THEN "available"
    ELSE "locked"

\* the XP of the node's domains; a node that lists none sums to 0
sumXpForNode(node, xpByDomain) == SumXpOfDomains(xpByDomain, node.domains, 1)

computeProgress(totalXp, xpRequired) ==
    IF xpRequired <= 0 THEN Frac(1, 1)
    ELSE Clamp01(totalXp, xpRequired)

\* computeSkillTreeView(user, skillTree); userOpt = Absent is a null user,
\* read through user?.xp_by_domain || {} and user?.completed_skill_nodes || []
computeSkillTreeView(userOpt, tree) ==
    LET xpByDomain   == IF userOpt # Absent THEN userOpt[1].xp_by_domain ELSE EmptyMap
        completedSet == IF userOpt # Absent THEN Range(userOpt[1].completed_skill_nodes)
                        ELSE {}
    IN [i \in 1..Len(tree) |->
          LET node == tree[i]
          IN [node     |-> node,
              status   |-> determineStatus(node.id \in completedSet,
                                           arePrerequisitesMet(node, completedSet)),
              progress |-> computeProgress(sumXpForNode(node, xpByDomain),
                                           node.xp_required)]]

----------------------------------------------------------------------------
(* The engines as their callers reach them: every argument may be null or
   undefined (Absent). A call ends by returning a value or by raising the
   TypeError of a property read, a method call or an iteration on an absent
   value. Each operator is the set of the outcomes of the call. *)

Returns(value) == [threw |-> FALSE, value |-> value]
Throws == [threw |-> TRUE, value |-> "TypeError"]

\* what `user || {}`-style defaults make of an absent user
NoUser == User(EmptyMap, EmptyMap, <<>>, EmptyMap, Settings(Absent, "dark"))

\* streaks_engine.js:16 reads user.completed_cards_by_date
EnterComputeStreakStats(userOpt, now) ==
    IF userOpt = Absent THEN {Throws}
    ELSE {Returns(computeStreakStats(userOpt[1], now))}

\* balanced mixer: !Array.isArray(cards) returns [], user is read behind user &&
EnterMixerSelect(userOpt, cardsOpt, options) ==
    IF cardsOpt = Absent THEN {Returns(<<>>)}
    ELSE {Returns(ids) : ids \in MixerSelect(userOpt, cardsOpt[1], options)}

\* weighted strategy up to its loop: user.settings is read when options.count
\* is nullish, !cards returns [], computeDomainWeights reads user.xp_by_domain
EnterWeightedSelect(userOpt, cardsOpt, options) ==
    IF options.count = Absent /\ userOpt = Absent THEN {Throws}
    ELSE IF cardsOpt = Absent THEN {Returns(<<>>)}
    ELSE IF Len(cardsOpt[1]) = 0 THEN {Returns(<<>>)}
    ELSE IF userOpt = Absent THEN {Throws}
    ELSE {[threw |-> FALSE, value |-> "loop"]}

\* xp_engine.js:23 returns the user as given when the user or the card is
\* missing; the tree is read as skillTree || []
EnterApplyXp(userOpt, cardOpt, treeOpt, dateOpt, now) ==
    IF userOpt = Absent \/ cardOpt = Absent THEN {Returns(userOpt)}
    ELSE {Returns(Some(applyXpForCompletedCard(
                          userOpt[1], cardOpt[1],
                          IF treeOpt # Absent THEN treeOpt[1] ELSE <<>>,
                          dateOpt, now)))}

\* skill_tree_engine.js:63 iterates skillTree
EnterComputeSkillTreeView(userOpt, treeOpt) ==
    IF treeOpt = Absent THEN {Throws}
    ELSE {Returns(computeSkillTreeView(userOpt, treeOpt[1]))}

\* skill_overview_engine.js:25-26: (user && user.xp_by_domain) || {}, and []
\* unless skillTree is an array
EnterComputeSkillOverview(userOpt, treeOpt) ==
    IF treeOpt = Absent THEN {Returns(<<>>)}
    ELSE {Returns(computeSkillOverview(
                     IF userOpt # Absent THEN userOpt[1] ELSE NoUser, treeOpt[1]))}

\* officer_engine.js: user?.xp_by_domain || {}
EnterComputeOfficerStats(userOpt) ==
    {Returns(computeOfficerStats(IF userOpt # Absent THEN userOpt[1] ELSE NoUser))}

\* reflection_engine.js:55 calls reflections.filter, :158 reads
\* user.completed_cards_by_date
EnterComputeReflectionStats(userOpt, reflectionsOpt, fromOpt, toOpt) ==
    IF reflectionsOpt = Absent \/ userOpt = Absent THEN {Throws}
    ELSE {Returns(computeReflectionStats(userOpt[1], reflectionsOpt[1], fromOpt, toOpt))}

\* timeline_engine.js:42 and :83: !phases returns null, and []
EnterGetCurrentPhase(phasesOpt, dateOpt, now) ==
    IF phasesOpt = Absent THEN {Returns(Absent)}
    ELSE {Returns(getCurrentPhase(phasesOpt[1], dateOpt, now))}

EnterComputeTimelineView(phasesOpt, dateOpt, now) ==
    IF phasesOpt = Absent THEN {Returns(<<>>)}
    ELSE {Returns(computeTimelineView(phasesOpt[1], dateOpt, now))}

----------------------------------------------------------------------------
(* SpecAbsent: one call of a core engine function with at least one of its
   required inputs (the user; the skill tree, card pool, reflection list or
   phase list) absent *)

\* the functions that take a user and a list, only a user, only a list
UserAndListFns ==
    {"selectDailyCardIds (mixer)", "selectDailyCardIds (weighted)",
     "applyXpForCompletedCard", "computeSkillTreeView", "computeSkillOverview",
     "computeReflectionStats"}
UserOnlyFns == {"computeStreakStats", "computeOfficerStats"}
ListOnlyFns == {"getCurrentPhase", "computeTimelineView"}

\* a well-formed list argument of each function
SampleList(fn) ==
    CASE fn \in {"selectDailyCardIds (mixer)", "selectDailyCardIds (weighted)"} ->
            <<CardA, CardB>>
      [] fn \in {"applyXpForCompletedCard", "computeSkillTreeView",
                 "computeSkillOverview"} -> <<NodeA, NodeB, NodeC>>
      [] fn = "computeReflectionStats" ->
            <<Reflection("r", ReflectEarly, 55), Reflection("r", ReflectLate, 75)>>
      [] OTHER -> <<PhaseOne, PhaseThree>>

\* args = <<user or Absent, list or Absent, options of a selector>>
AbsentCalls ==
    {ReadyCalc(fn, <<userOpt, listOpt, options>>) :
        fn \in UserAndListFns \cup UserOnlyFns \cup ListOnlyFns,
        userOpt \in {Absent} \cup {Some(u) : u \in LevelUsers},
        listOpt \in {Absent, Some("list")},
        options \in {Options(Absent, Absent), Options(Some(1), Absent)}}

InitAbsent ==
    /\ today = FirstDay
    /\ user = NoUser
    /\ skillTree = <<>>
    /\ cards = <<>>
    /\ todaysMissions = <<>>
    /\ persisted = Absent
    /\ view = IdleView
    /\ lastOp = "init"
    /\ alerted = FALSE
    /\ hist = IdleHist
    /\ sel = IdleSel
    /\ stats = Absent
    /\ \E c \in AbsentCalls :
          /\ c.args[1] = Absent \/ c.args[2] = Absent
          /\ c.fn \in UserOnlyFns => c.args[1] = Absent /\ c.args[2] = Absent
          /\ c.fn \in ListOnlyFns => c.args[1] = Absent /\ c.args[2] = Absent
          /\ c.fn \notin {"selectDailyCardIds (mixer)", "selectDailyCardIds (weighted)"}
                => c.args[3] = Options(Absent, Absent)
          /\ calc = [c EXCEPT !.args[2] = IF c.args[2] = Absent THEN Absent
                                          ELSE Some(SampleList(c.fn))]

\* the call ends with one of its outcomes
Finish(outcomes) ==
    \E out \in outcomes :
        /\ calc' = IF out.threw THEN [calc EXCEPT !.pc = "thrown"]
                   ELSE [calc EXCEPT !.pc = "done", !.result = Some(out.value)]
        /\ lastOp' = calc.fn
        /\ UNCHANGED <<today, user, skillTree, cards, todaysMissions, persisted,
                       view, alerted, hist, sel, stats>>

Ready(fn) == calc.pc = "ready" /\ calc.fn = fn

StreakStatsOnAbsent ==
    Ready("computeStreakStats") /\ Finish(EnterComputeStreakStats(calc.args[1], today))

MixerOnAbsent ==
    /\ Ready("selectDailyCardIds (mixer)")
    /\ Finish(EnterMixerSelect(calc.args[1], calc.args[2], calc.args[3]))

WeightedOnAbsent ==
    /\ Ready("selectDailyCardIds (weighted)")
    /\ Finish(EnterWeightedSelect(calc.args[1], calc.args[2], calc.args[3]))

ApplyXpOnAbsent ==
    /\ Ready("applyXpForCompletedCard")
    /\ Finish(EnterApplyXp(calc.args[1], Some(CardA), calc.args[2], Absent, today))

SkillTreeViewOnAbsent ==
    /\ Ready("computeSkillTreeView")
    /\ Finish(EnterComputeSkillTreeView(calc.args[1], calc.args[2]))

SkillOverviewOnAbsent ==
    /\ Ready("computeSkillOverview")
    /\ Finish(EnterComputeSkillOverview(calc.args[1], calc.args[2]))

OfficerStatsOnAbsent ==
    Ready("computeOfficerStats") /\ Finish(EnterComputeOfficerStats(calc.args[1]))

ReflectionStatsOnAbsent ==
    /\ Ready("computeReflectionStats")
    /\ Finish(EnterComputeReflectionStats(calc.args[1], calc.args[2], Absent, Absent))

CurrentPhaseOnAbsent ==
    Ready("getCurrentPhase") /\ Finish(EnterGetCurrentPhase(calc.args[2], Absent, today))

TimelineViewOnAbsent ==
    /\ Ready("computeTimelineView")
    /\ Finish(EnterComputeTimelineView(calc.args[2], Absent, today))

NextAbsent ==
    \/ StreakStatsOnAbsent
    \/ MixerOnAbsent
    \/ WeightedOnAbsent
    \/ ApplyXpOnAbsent
    \/ SkillTreeViewOnAbsent
    \/ SkillOverviewOnAbsent
    \/ OfficerStatsOnAbsent
    \/ ReflectionStatsOnAbsent
    \/ CurrentPhaseOnAbsent
    \/ TimelineViewOnAbsent

SpecAbsent == InitAbsent /\ [][NextAbsent]_vars

\* the neutral result of each function for the input that is absent
NeutralResult ==
    LET userOpt == calc.args[1]
        listOpt == calc.args[2]
        value == calc.result[1]
    IN  CASE calc.fn = "computeStreakStats" ->
                value.currentStreak = 0 /\ value.bestStreak = 0
          [] calc.fn \in {"selectDailyCardIds (mixer)", "selectDailyCardIds (weighted)"} ->
                listOpt = Absent => value = <<>>
          [] calc.fn = "applyXpForCompletedCard" ->
                IF userOpt = Absent THEN value = Absent
                ELSE value[1].completed_skill_nodes = userOpt[1].completed_skill_nodes
          [] calc.fn = "computeSkillTreeView" ->
                IF listOpt = Absent THEN value = <<>>
                ELSE \A i \in DOMAIN value : value[i].status # "completed"
          [] calc.fn = "computeSkillOverview" ->
                IF listOpt = Absent THEN value = <<>>
                ELSE \A i \in DOMAIN value : value[i].totalXp = 0
          [] calc.fn = "computeOfficerStats" ->
                value.totalXp = 0 /\ value.level = 1
          [] calc.fn = "computeReflectionStats" ->
                value.activityDays = 0 \/ value.trend = "insufficient_data"
          [] calc.fn = "getCurrentPhase" -> value = Absent
          [] OTHER -> value = <<>>

\* C21: a core engine function called with a required input absent ends
\* without raising and returns its neutral result (an empty list, zero
\* stats, or the user unchanged)
C21_AbsentInputsGiveNeutralResults ==
    calc.pc \in {"done", "thrown"} => calc.pc = "done" /\ NeutralResult

\* the part of C21 that the code keeps: a call that returns, returns neutral
C21_ReturnedIsNeutral == calc.pc = "done" => NeutralResult

----------------------------------------------------------------------------
(* applyXpForCompletedCard on objects (xp_engine.js lines 22-114): a user is
   an object whose xp_by_domain, completed_cards_by_date and
   completed_skill_nodes fields refer to further objects, and each date of
   completed_cards_by_date refers to a list.  A heap maps references to
   objects; references under "in" belong to the caller's user, references
   under "out" are created by the call. *)

InUser == <<"in", "user">>
OutUser == <<"out", "user">>
ListRef(side, date) == <<side, "list", date>>

\* the caller's user as objects
StoreUser(u) ==
    LET dates == DOMAIN u.completed_cards_by_date
        refs  == {InUser, <<"in", "xp">>, <<"in", "byDate">>, <<"in", "nodes">>}
                    \cup {ListRef("in", d) : d \in dates}
    IN [r \in refs |->
          CASE r = InUser ->
                  [u EXCEPT !.xp_by_domain = <<"in", "xp">>,
                            !.completed_cards_by_date = <<"in", "byDate">>,
                            !.completed_skill_nodes = <<"in", "nodes">>]
            [] r = <<"in", "xp">> -> u.xp_by_domain
            [] r = <<"in", "byDate">> -> [d \in dates |-> ListRef("in", d)]
            [] r = <<"in", "nodes">> -> u.completed_skill_nodes
            [] OTHER -> u.completed_cards_by_date[r[3]]]

\* the user a reference denotes, with every field followed
LoadUser(heap, ref) ==
    LET obj    == heap[ref]
        byDate == heap[obj.completed_cards_by_date]
    IN [obj EXCEPT !.xp_by_domain = heap[obj.xp_by_domain],
                   !.completed_cards_by_date = [d \in DOMAIN byDate |-> heap[byDate[d]]],
                   !.completed_skill_nodes = heap[obj.completed_skill_nodes]]

\* lines 28-33: updatedUser = {...user, xp_by_domain: {...}, ...}; the copy
\* of completed_cards_by_date still refers to the caller's lists
CloneUser(heap, ref) ==
    LET obj == heap[ref]
        h1  == Put(heap, <<"out", "xp">>, heap[obj.xp_by_domain])
        h2  == Put(h1, <<"out", "byDate">>, heap[obj.completed_cards_by_date])
        h3  == Put(h2, <<"out", "nodes">>, heap[obj.completed_skill_nodes])
    IN Put(h3, OutUser, [obj EXCEPT !.xp_by_domain = <<"out", "xp">>,
                                    !.completed_cards_by_date = <<"out", "byDate">>,
                                    !.completed_skill_nodes = <<"out", "nodes">>])

\* a plausible slip: todaysList = byDate[date], the caller's own list
TodaysList_shared(heap, byDate, date) ==
    IF date \in DOMAIN byDate
    THEN [heap |-> heap, ref |-> byDate[date]]
    ELSE [heap |-> Put(heap, ListRef("out", date), <<>>), ref |-> ListRef("out", date)]

\* line 37: todaysList = Array.isArray(byDate[date]) ? [...byDate[date]] : []
TodaysList(heap, byDate, date) ==
    [heap |-> Put(heap, ListRef("out", date),
                  IF date \in DOMAIN byDate THEN heap[byDate[date]] ELSE <<>>),
     ref |-> ListRef("out", date)]

\* lines 35-41 on objects: push into todaysList, then byDate[date] = todaysList
MarkCompletedOnHeap(heap, date, cardId) ==
    LET byDateRef  == heap[OutUser].completed_cards_by_date
        todaysList == TodaysList(heap, heap[byDateRef], date)
        h1         == todaysList.heap
    IN IF ~Includes(h1[todaysList.ref], cardId)
       THEN LET h2 == [h1 EXCEPT ![todaysList.ref] = Append(@, cardId)]
            IN [h2 EXCEPT ![byDateRef] = Put(@, date, todaysList.ref)]
       ELSE h1

\* the heap after applyXpForCompletedCard(user, card, skillTree, {date}); the
\* call returns OutUser
applyXpOnHeap(heap, card, tree, dateOpt, now) ==
    LET date        == IF dateOpt # Absent THEN dateOpt ELSE now
        marked      == MarkCompletedOnHeap(CloneUser(heap, InUser), date, card.id)
        streakStats == computeStreakStats(LoadUser(marked, OutUser), now)
        multiplier  == computeXpMultiplier(streakStats.currentStreak)
        baseXp      == card.xp_reward
        gainedXp    == MathRoundTenths(baseXp * multiplier)
        domain      == IF card.domain # None THEN card.domain ELSE "misc"
        credited    == [marked EXCEPT
                          ![<<"out", "xp">>] = CreditXp(@, domain, gainedXp),
                          ![OutUser].last_xp_gain =
                              Some([date |-> date, card_id |-> card.id,
                                    domain |-> domain, base_xp |-> baseXp,
                                    multiplier |-> multiplier,
                                    gained_xp |-> gainedXp,
                                    current_streak |-> streakStats.currentStreak])]
        unlocked    == unlockCompletedSkills(LoadUser(credited, OutUser), tree)
        \* line 113: completed_skill_nodes = Array.from(completedSet), a new array
        h1          == Put(credited, <<"out", "unlocked">>, unlocked.completed_skill_nodes)
    IN [h1 EXCEPT ![OutUser].completed_skill_nodes = <<"out", "unlocked">>]

(* SpecObjects: one call of applyXpForCompletedCard on a stored user *)

InitObjects ==
    /\ today \in XpDays
    /\ \E xp \in XpBuckets, log \in XpLogs, done \in XpCompleted :
          user = User(xp, log, done, EmptyMap, Settings(Absent, "dark"))
    /\ skillTree = <<NodeA, NodeB, NodeC>>
    /\ cards = <<CardA, CardB, CardD>>
    /\ todaysMissions = <<>>
    /\ persisted = Absent
    /\ view = IdleView
    /\ lastOp = "init"
    /\ alerted = FALSE
    /\ hist = IdleHist
    /\ sel = IdleSel
    /\ stats = Absent
    /\ \E card \in XpCards, dateOpt \in {Absent, <<2025, 2, 28>>} :
          calc = ReadyCalc("applyXpForCompletedCard", <<StoreUser(user), card, dateOpt>>)

\* result = the heap after the call
ApplyXpOnObjects ==
    /\ calc.pc = "ready"
    /\ calc.fn = "applyXpForCompletedCard"
    /\ Return(applyXpOnHeap(calc.args[1], calc.args[2], skillTree, calc.args[3], today))

NextObjects == ApplyXpOnObjects

SpecObjects == InitObjects /\ [][NextObjects]_vars

\* C22: after applyXpForCompletedCard the caller's user still has its previous
\* xp_by_domain, completed_cards_by_date (every list in it, the one for the
\* call's date included), completed_skill_nodes and last_xp_gain, and the
\* returned user carries the result of the call
C22_InputUserIsReadOnly ==
    Returned("applyXpForCompletedCard") =>
        LET heap == calc.result[1]
        IN /\ LoadUser(heap, InUser) = user
           /\ \A ref \in DOMAIN calc.args[1] : heap[ref] = calc.args[1][ref]
           /\ LoadUser(heap, OutUser) =
                 applyXpForCompletedCard(user, calc.args[2], skillTree, calc.args[3], today)

\* a call that added the card to a list the caller's user already had for the date
C22_Witness ==
    /\ Returned("applyXpForCompletedCard")
    /\ LET date == IF calc.args[3] # Absent THEN calc.args[3] ELSE today
           out  == LoadUser(calc.result[1], OutUser)
       IN /\ date \in DOMAIN user.completed_cards_by_date
          /\ ~Includes(user.completed_cards_by_date[date], calc.args[2].id)
          /\ Includes(out.completed_cards_by_date[date], calc.args[2].id)
          /\ out.xp_by_domain # user.xp_by_domain
          /\ out.completed_skill_nodes # user.completed_skill_nodes

----------------------------------------------------------------------------
\* C23: computeStreakStats does not read the wall clock: the stats returned
\* for a user are the stats the same call returns on every other system date
C23_StreakStatsIgnoreSystemDate ==
    stats # Absent =>
        \A now \in StreakWindow : computeStreakStats(user, now) = stats[1]

----------------------------------------------------------------------------
(* SpecLoops: the two capped loops of the core, step by step: the while loop
   of the weighted selectDailyCardIds and the while loop of
   computeInfiniteLevel *)

LoopPools == {<<>>, <<CardA>>, <<CardA, CardB>>, <<CardA, CardB, CardD>>}
LoopCounts == {Absent, Some(1), Some(3)}
LoopXpValues == {-5, 0, 49, 50, 60, 250}
LoopBases == {0, 1, 3, 100}

InitLoops ==
    /\ today = FirstDay
    /\ user = User([d \in {"academic"} |-> 20], EmptyMap, <<>>, EmptyMap,
                   Settings(Absent, "dark"))
    /\ skillTree = <<>>
    /\ todaysMissions = <<>>
    /\ persisted = Absent
    /\ view = IdleView
    /\ lastOp = "init"
    /\ alerted = FALSE
    /\ hist = IdleHist
    /\ stats = Absent
    /\ \/ /\ cards \in LoopPools
          /\ \E n \in LoopCounts :
                sel = [IdleSel EXCEPT !.pc = "ready", !.options = Options(n, Absent)]
          /\ calc = IdleCalc
       \/ /\ cards = <<>>
          /\ sel = IdleSel
          /\ \E totalXp \in LoopXpValues, baseRequired \in LoopBases :
                calc = ReadyCalc("computeInfiniteLevel", <<totalXp, baseRequired>>)

\* lines 72-74: level = 0, required = baseRequired, remaining = max(0, totalXp)
InfiniteLevelEnter ==
    /\ calc.pc = "ready"
    /\ calc.fn = "computeInfiniteLevel"
    /\ calc' = [calc EXCEPT !.pc = "loop",
                  !.result = Some([level |-> 0, required |-> calc.args[2],
                                   remaining |-> Max2(0, calc.args[1])])]
    /\ lastOp' = "enter"
    /\ UNCHANGED <<today, user, skillTree, cards, todaysMissions, persisted,
                   view, alerted, hist, sel, stats>>

InfiniteLevelCondition ==
    /\ calc.result[1].remaining >= calc.result[1].required
    /\ calc.result[1].level < MAX_LEVEL

\* lines 76-80: one pass of the while loop
InfiniteLevelStep ==
    /\ calc.pc = "loop"
    /\ InfiniteLevelCondition
    /\ calc' = [calc EXCEPT !.result =
                  Some([level |-> calc.result[1].level + 1,
                        required |-> GrowRequired(calc.result[1].required),
                        remaining |-> calc.result[1].remaining - calc.result[1].required])]
    /\ lastOp' = "step"
    /\ UNCHANGED <<today, user, skillTree, cards, todaysMissions, persisted,
                   view, alerted, hist, sel, stats>>

\* the loop condition fails: the function returns
InfiniteLevelReturn ==
    /\ calc.pc = "loop"
    /\ ~InfiniteLevelCondition
    /\ calc' = [calc EXCEPT !.pc = "done"]
    /\ lastOp' = "return"
    /\ UNCHANGED <<today, user, skillTree, cards, todaysMissions, persisted,
                   view, alerted, hist, sel, stats>>

NextLoops ==
    \/ WeightedCall
    \/ \E i \in 1..Len(CardUniverse) : WeightedIterate(i)
    \/ WeightedReturn
    \/ InfiniteLevelEnter
    \/ InfiniteLevelStep
    \/ InfiniteLevelReturn

\* a started function keeps running
SpecLoops == InitLoops /\ [][NextLoops]_vars /\ WF_vars(NextLoops)

DrawsAreCapped ==
    /\ sel.safetyCounter <= 5 * Len(cards)
    /\ sel.pc = "done" => Len(sel.result[1]) <= Min2(sel.count, Len(cards))

LevelStepsAreCapped ==
    calc.pc \in {"loop", "done"} =>
        /\ calc.result[1].level <= 50
        /\ calc.pc = "done" =>
              calc.result[1] = InfiniteLevelLoop(0, calc.args[2], Max2(0, calc.args[1]))

\* C24: the weighted selection loop makes at most 5 x |pool| draws and
\* computeInfiniteLevel at most 50 level steps, and both calls return
C24_LoopsTerminate ==
    /\ [](DrawsAreCapped /\ LevelStepsAreCapped)
    /\ <>(sel.pc = "done" \/ calc.pc = "done")

\* the selection gave up at the cap with too few ids (every later draw
\* repeated), or the levelling stopped at level 50 with XP left over
C24_Witness ==
    \/ /\ sel.pc = "done"
       /\ Len(cards) = 2
       /\ sel.safetyCounter = 5 * Len(cards)
       /\ Len(sel.result[1]) = 1
       /\ sel.count = 3
    \/ /\ calc.pc = "done"
       /\ calc.fn = "computeInfiniteLevel"
       /\ calc.result[1].level = 50
       /\ calc.result[1].remaining >= calc.result[1].required

----------------------------------------------------------------------------
\* the trend of an ordered list split into its first nOld and remaining entries
TrendOfSplit(ordered, nOld) ==
    LET nNew   == Len(ordered) - nOld
        sumOld == TotalConsistency(SubSeq(ordered, 1, nOld))
        sumNew == TotalConsistency(SubSeq(ordered, nOld + 1, Len(ordered)))
        scaled == sumNew * nOld - sumOld * nNew
    IN IF scaled > 5 * nOld * nNew THEN "improving"
       ELSE IF scaled < (-5) * nOld * nNew THEN "declining"
       ELSE "stable"

\* C25: for an odd number n >= 5 of reflections in range the older half has
\* the extra entry: the trend compares the mean of the (n+1)/2 oldest
\* entries with the mean of the (n-1)/2 newest
C25_OlderHalfGetsExtraEntry ==
    Returned("computeReflectionStats") =>
        LET ordered == InDateOrder(ReflectionsInRange)
            n       == Len(ordered)
        IN (n >= 5 /\ n % 2 = 1) =>
              calc.result[1].consistencyTrend = TrendOfSplit(ordered, (n + 1) \div 2)

----------------------------------------------------------------------------
(* SpecReset: the application with the Reset Profile control of the settings
   screen.  handleResetProfile is an async function: it runs up to
   "await resetUser()", the page stays live while the template is fetched,
   and the rest of the handler runs when the fetch resolves. *)

\* /data/user_template.json: a profile without progress
TemplateUser == User(EmptyMap, EmptyMap, <<>>, EmptyMap, Settings(Some(3), "dark"))

\* the user confirms the reset: handleResetProfile up to the await inside
\* resetUser (the stored profile is removed, the fetch is under way);
\* args = the user of the state container at that moment
HandleResetProfile ==
    /\ view.screen = "settings"
    /\ calc.pc = "idle"
    /\ persisted' = Absent
    /\ calc' = [pc |-> "awaiting", fn |-> "resetUser", args |-> <<user>>,
                result |-> Absent]
    /\ lastOp' = "resetProfile"
    /\ alerted' = FALSE
    /\ UNCHANGED <<today, user, skillTree, cards, todaysMissions, view, hist, sel, stats>>

\* the fetch resolves: resetUser saves the template, handleResetProfile
\* installs it, draws new missions and opens the dashboard
ResetUserResolved ==
    /\ calc.pc = "awaiting"
    /\ user' = TemplateUser
    /\ persisted' = Some(TemplateUser)
    /\ todaysMissions' \in MixerSelect(Some(TemplateUser), cards, Options(Absent, Absent))
    /\ view' = renderOther("dashboard")
    /\ calc' = IdleCalc
    /\ lastOp' = "resetResolved"
    /\ alerted' = FALSE
    /\ UNCHANGED <<today, skillTree, cards, hist, sel, stats>>

InitReset ==
    /\ today = AppStartDay
    /\ \E h \in StoredRuns : user = StoredUser(h)
    /\ persisted = Some(user)
    /\ skillTree = AppTree
    /\ cards = AppCards
    /\ todaysMissions \in MixerSelect(Some(user), cards, Options(Absent, Absent))
    /\ view = IdleView
    /\ lastOp = "init"
    /\ alerted = FALSE
    /\ hist = IdleHist
    /\ sel = IdleSel
    /\ stats = Absent
    /\ calc = IdleCalc

NextReset ==
    \/ \E screen \in {"dashboard", "missions", "settings"} : NavigateTo(screen)
    \/ \E i \in 1..Len(AppCards) : HandleCompleteMission(AppCards[i].id)
    \/ HandleResetProfile
    \/ ResetUserResolved

SpecReset == InitReset /\ [][NextReset]_vars

\* C26: user-state transitions are serialized: while a profile reset awaits
\* its template, no mission completion is accepted, so the user that the
\* reset overwrites is the user it was started on
C26_NoCompletionDuringReset ==
    calc.pc = "awaiting" => lastOp # "complete" /\ user = calc.args[1]

----------------------------------------------------------------------------
(* SpecClosure: sequences of applyXpForCompletedCard calls on a skill tree
   one of whose nodes lists a prerequisite that names no node *)

NodeG == Node("n4", <<>>, 0, <<"n1", "ghost">>)

\* completed lists as stored: closed under prerequisites or not
ClosureCompleted == { <<>>, <<"n1">>, <<"n2">>, <<"n2", "n1">> }

InitClosure ==
    /\ today = XpFirstDay
    /\ \E xp \in XpBuckets, done \in ClosureCompleted :
          user = User(xp, EmptyMap, done, EmptyMap, Settings(Absent, "dark"))
    /\ skillTree \in Permutations3(NodeA, NodeB, NodeG)
    /\ cards = <<CardA, CardB, CardD>>
    /\ todaysMissions = <<>>
    /\ persisted = Some(user)
    /\ view = IdleView
    /\ lastOp = "init"
    /\ alerted = FALSE
    /\ hist = IdleHist
    /\ sel = IdleSel
    /\ stats = Absent
    /\ calc = IdleCalc

NextClosure ==
    \/ \E card \in XpCards, dateOpt \in {Absent, <<2025, 2, 28>>} :
          ApplyXpCall(card, dateOpt)
    \/ AdvanceDay(XpDays)

SpecClosure == InitClosure /\ [][NextClosure]_vars

TreeIds == {skillTree[i].id : i \in 1..Len(skillTree)}

\* every completed node of the tree has all its prerequisites completed
ClosedUnderPrerequisites(u) ==
    \A i \in 1..Len(skillTree) :
        Includes(u.completed_skill_nodes, skillTree[i].id) =>
            \A p \in Range(skillTree[i].prerequisites) :
                Includes(u.completed_skill_nodes, p)

----------------------------------------------------------------------------
(* Claims on the missions screen, checked under SpecApp *)

IdleToday(u, now) == Get(u.completed_cards_by_date, now, <<>>) = <<>>

Yesterday == toIsoDate(addDays(parseDate(today), -1))

\* C28: on a day without a completion so far the reroll allowance is 0 and
\* a reroll request is turned down, whatever streak was held through the day
\* before; a request goes through only when a card was completed today and
\* the run of active days ending today is at least 7 long
C28_NoRerollOnIdleDay ==
    [][/\ IdleToday(user, today) => AllowedRolls(user, today) = 0
       /\ (lastOp' = "reroll" /\ IdleToday(user, today)) =>
             /\ alerted'
             /\ user' = user
             /\ todaysMissions' = todaysMissions
             /\ persisted' = persisted
       /\ (lastOp' = "reroll" /\ ~alerted') =>
             /\ ~IdleToday(user, today)
             /\ StreakEndingOn(user, today) >= 7
             /\ UsedRolls(user', today) = UsedRolls(user, today) + 1]_vars

\* a streak of 13 days or more was held through yesterday, nothing is
\* completed today, and the request from the Reroll button was turned down
C28_Witness ==
    /\ lastOp = "reroll"
    /\ alerted
    /\ IdleToday(user, today)
    /\ StreakEndingOn(user, Yesterday) >= 13

----------------------------------------------------------------------------
\* C29: every node the unlock pass of the last applyXpForCompletedCard call
\* added has, in computeSkillTreeView of the returned user, the status
\* completed and the progress 1, nodes that list no domains included
C29_ViewAgreesWithUnlock ==
    lastOp = "applyXp" =>
        LET treeView == computeSkillTreeView(Some(user), skillTree)
        IN \A i \in 1..Len(treeView) :
              treeView[i].node.id \in NewlyCompleted =>
                  /\ treeView[i].status = "completed"
                  /\ FracEq(treeView[i].progress, Frac(1, 1))

----------------------------------------------------------------------------
CompletedOn(u, date) == Get(u.completed_cards_by_date, date, <<>>)

\* the Complete buttons on the page belong to cards that today's completed
\* list does not hold
ControlsOnlyForOpenCards ==
    \A id \in view.completeBtns : ~Includes(CompletedOn(user, today), id)

\* C30: through the missions screen XP is credited at most once per card
\* and date: a Complete button is on the page only for a card absent from
\* today's completed list, also after a filter, a reroll or a day change,
\* and a click that reaches applyXpForCompletedCard is for a card not yet
\* recorded for today, which is recorded once afterwards
C30_OneCreditPerCardAndDate ==
    /\ []ControlsOnlyForOpenCards
    /\ [][(lastOp' = "complete" /\ user' # user) =>
             LET cardId == user'.last_xp_gain[1].card_id
             IN /\ user'.last_xp_gain[1].date = today
                /\ ~Includes(CompletedOn(user, today), cardId)
                /\ Len(SelectSeq(CompletedOn(user', today),
                                 LAMBDA id : id = cardId)) = 1]_vars

\* a button rendered yesterday was clicked after midnight: the card was
\* completed yesterday and is credited again for today
C30_Witness ==
    /\ lastOp = "complete"
    /\ today # AppStartDay
    /\ \E id \in {"c1", "c2", "c3"} :
          /\ user.last_xp_gain[1].card_id = id
          /\ user.last_xp_gain[1].date = today
          /\ Includes(CompletedOn(user, AppStartDay), id)
          /\ Includes(CompletedOn(user, today), id)

====
